---- MODULE Spec2Model ----
(***************************************************************************)
(* State mutation and classification core of SideCar: the delta-operation  *)
(* engine (lib/delta-engine.js), the NPC registry (lib/npc-registry.js)    *)
(* and the classifier / batch processor (lib/npc-classifier.js).           *)
(***************************************************************************)
EXTENDS Integers, Sequences, FiniteSets, TLC

(***************************************************************************)
(* JavaScript values.  Every value is a record of one shape, so that any   *)
(* two values can be compared:                                             *)
(*   t  the type tag: "undefined", "null", "number", "string", "boolean",  *)
(*      "array", "object"                                                  *)
(*   n  a number in tenths (5 stands for 0.5, 70 for 7); 1/0 for a boolean *)
(*   s  the text of a string; "NaN" marks the number NaN                   *)
(*   e  the elements of an array                                           *)
(*   p  the own properties of an object (or the non-index properties of an *)
(*      array), in insertion order, as a sequence of [k, v]                *)
(***************************************************************************)
JsUndefined == [t |-> "undefined", n |-> 0, s |-> "", e |-> <<>>, p |-> <<>>]

JsNull == [t |-> "null", n |-> 0, s |-> "", e |-> <<>>, p |-> <<>>]

JsTenths(x) == [t |-> "number", n |-> x, s |-> "", e |-> <<>>, p |-> <<>>]

JsNum(x) == JsTenths(10 * x)

JsNaN == [t |-> "number", n |-> 0, s |-> "NaN", e |-> <<>>, p |-> <<>>]

JsStr(x) == [t |-> "string", n |-> 0, s |-> x, e |-> <<>>, p |-> <<>>]

JsBool(b) == [t |-> "boolean", n |-> IF b THEN 1 ELSE 0, s |-> "", e |-> <<>>, p |-> <<>>]

JsArr(es) == [t |-> "array", n |-> 0, s |-> "", e |-> es, p |-> <<>>]

JsObj(ps) == [t |-> "object", n |-> 0, s |-> "", e |-> <<>>, p |-> ps]

Prop(k, v) == [k |-> k, v |-> v]

IsNullish(v) == v.t \in {"undefined", "null"}

IsContainer(v) == v.t \in {"array", "object"}

IsNaN(v) == v.t = "number" /\ v.s = "NaN"

\* ToBoolean: what `!x` and `if (x)` test.
Truthy(v) ==
    CASE v.t \in {"undefined", "null"} -> FALSE
      [] v.t = "number" -> v.n # 0 /\ v.s # "NaN"
      [] v.t = "string" -> v.s # ""
      [] v.t = "boolean" -> v.n = 1
      [] OTHER -> TRUE

\* typeof x === 'object' (true of null and of arrays too).
TypeofObject(v) == v.t \in {"null", "array", "object"}

\* a === b: by value for primitives (NaN differs from itself), by identity
\* for arrays and objects.  Two containers met through different
\* expressions are different objects here: no document of the model holds
\* the same object twice.
StrictEq(a, b) ==
    /\ ~IsContainer(a)
    /\ ~IsContainer(b)
    /\ ~IsNaN(a)
    /\ a = b

\* Array.prototype.includes compares with SameValueZero: NaN is found.
SameValueZero(a, b) == ~IsContainer(a) /\ ~IsContainer(b) /\ a = b

(***************************************************************************)
(* Property keys are strings.  The canonical array indices of the model:   *)
(***************************************************************************)
IndexKeys == <<"0", "1", "2", "3">>

\* /^\d+$/.test(key), and what makes arr[key] an element access.
IsNumericKey(k) == \E i \in 1..Len(IndexKeys) : IndexKeys[i] = k

KeyIndex(k) == (CHOOSE i \in 1..Len(IndexKeys) : IndexKeys[i] = k) - 1

\* The characters of the strings a path of the model can index into.
StrChars(s) ==
    CASE s = "" -> <<>>
      [] s = "x" -> <<"x">>
      [] s = "hi" -> <<"h", "i">>
      [] s = "Friendly" -> <<"F", "r", "i", "e", "n", "d", "l", "y">>

\* Every definition below hands a computed value on as a parameter rather
\* than naming it in a LET that is used several times.

PropIndex(ps, k) ==
    IF \E i \in 1..Len(ps) : ps[i].k = k
    THEN CHOOSE i \in 1..Len(ps) : ps[i].k = k
    ELSE 0

PropValue(ps, i) == IF i # 0 THEN ps[i].v ELSE JsUndefined

ElemValue(es, i) == IF i < Len(es) THEN es[i + 1] ELSE JsUndefined

\* Object.hasOwn(c, k)
HasOwn(c, k) ==
    IF c.t = "array" /\ IsNumericKey(k)
    THEN KeyIndex(k) < Len(c.e)
    ELSE IsContainer(c) /\ PropIndex(c.p, k) # 0

\* c[k] for a value that is neither null nor undefined.
GetProp(c, k) ==
    CASE c.t = "object" \/ (c.t = "array" /\ ~IsNumericKey(k)) ->
            PropValue(c.p, PropIndex(c.p, k))
      [] c.t = "array" -> ElemValue(c.e, KeyIndex(k))
      [] c.t = "string" /\ IsNumericKey(k) ->
            IF KeyIndex(k) < Len(StrChars(c.s))
            THEN JsStr(StrChars(c.s)[KeyIndex(k) + 1])
            ELSE JsUndefined
      [] OTHER -> JsUndefined

SetPropAt(ps, i, k, v) ==
    IF i # 0 THEN [ps EXCEPT ![i] = Prop(k, v)] ELSE Append(ps, Prop(k, v))

\* arr[i] = v: writing past the end leaves holes, which read as undefined.
SetInElems(es, i, v) ==
    [j \in 1..(IF i + 1 > Len(es) THEN i + 1 ELSE Len(es)) |->
        IF j = i + 1 THEN v ELSE IF j <= Len(es) THEN es[j] ELSE JsUndefined]

\* c[k] = v on an array or an object (an assignment to a property of a
\* primitive throws in a module, which is strict code: see SetWalk).
SetProp(c, k, v) ==
    IF c.t = "array" /\ IsNumericKey(k)
    THEN [c EXCEPT !.e = SetInElems(c.e, KeyIndex(k), v)]
    ELSE [c EXCEPT !.p = SetPropAt(c.p, PropIndex(c.p, k), k, v)]

RemoveAt(seq, i) == [j \in 1..(Len(seq) - 1) |-> IF j < i THEN seq[j] ELSE seq[j + 1]]

\* delete c[k] on an object.
DeleteProp(c, k) == [c EXCEPT !.p = RemoveAt(c.p, PropIndex(c.p, k))]

(***************************************************************************)
(* Path strings.  A string of the model is atomic, so the text of every    *)
(* path string in use is given here as its lexemes: "." is a dot, "[n]" a  *)
(* bracketed index, anything else a run of other characters.               *)
(***************************************************************************)
PathTexts ==
    <<  <<"", <<>> >>,
        <<".", <<".">> >>,
        <<"..", <<".", ".">> >>,
        <<"a", <<"a">> >>,
        <<"n", <<"n">> >>,
        <<"s", <<"s">> >>,
        <<"o", <<"o">> >>,
        <<"a.b", <<"a", ".", "b">> >>,
        <<"s.b", <<"s", ".", "b">> >>,
        <<"s.0", <<"s", ".", "0">> >>,
        <<"a.0", <<"a", ".", "0">> >>,
        <<"a[0]", <<"a", "[0]">> >>,
        <<"c.1.d", <<"c", ".", "1", ".", "d">> >>,
        <<"c[1].d", <<"c", "[1]", ".", "d">> >>,
        <<"o.k", <<"o", ".", "k">> >>,
        <<"meta", <<"meta">> >>,
        <<"meta.classification", <<"meta", ".", "classification">> >>,
        <<"meta.userPinned", <<"meta", ".", "userPinned">> >>,
        <<"meta.appearanceCount", <<"meta", ".", "appearanceCount">> >>,
        <<"data", <<"data">> >>,
        <<"data.notes", <<"data", ".", "notes">> >>,
        <<"data.sentiment", <<"data", ".", "sentiment">> >>,
        <<"data.lastContext", <<"data", ".", "lastContext">> >>,
        <<"data.mood", <<"data", ".", "mood">> >>,
        <<"trackers", <<"trackers">> >>,
        <<"trackers.", <<"trackers", ".">> >>,
        <<"trackers.knowledge", <<"trackers", ".", "knowledge">> >>,
        <<"trackers.status.mood", <<"trackers", ".", "status", ".", "mood">> >>,
        <<"trackers.status.moodSwings", <<"trackers", ".", "status", ".", "moodSwings">> >>,
        <<"trackers.status.health", <<"trackers", ".", "status", ".", "health">> >>,
        <<"trackers.relationships.mainCharacter.sentiment",
          <<"trackers", ".", "relationships", ".", "mainCharacter", ".", "sentiment">> >>,
        <<"timeline", <<"timeline">> >>,
        <<"narrativeRole", <<"narrativeRole">> >>,
        <<"narrativeRole.", <<"narrativeRole", ".">> >>,
        <<"narrativeRole.archetype", <<"narrativeRole", ".", "archetype">> >>  >>

PathLex(s) == PathTexts[CHOOSE i \in 1..Len(PathTexts) : PathTexts[i][1] = s][2]

\* The digits of a bracketed index; "" for a lexeme that is none.
BracketDigits(l) ==
    CASE l = "[0]" -> "0"
      [] l = "[1]" -> "1"
      [] l = "[2]" -> "2"
      [] l = "[3]" -> "3"
      [] OTHER -> ""

\* A run of characters that starts with another run without being it.
ProperPrefixes == {<<"mood", "moodSwings">>}

ChunkStartsWith(c, pre) == c = pre \/ <<pre, c>> \in ProperPrefixes

LexStartsWith(sl, pl) ==
    \/ pl = <<>>
    \/ /\ Len(pl) <= Len(sl)
       /\ \A i \in 1..(Len(pl) - 1) : sl[i] = pl[i]
       /\ IF pl[Len(pl)] = "." \/ BracketDigits(pl[Len(pl)]) # ""
          THEN sl[Len(pl)] = pl[Len(pl)]
          ELSE ChunkStartsWith(sl[Len(pl)], pl[Len(pl)])

\* String.prototype.startsWith on two path strings.
StartsWith(s, pre) == LexStartsWith(PathLex(s), PathLex(pre))

Flush(acc, cur) == IF cur = "" THEN acc ELSE Append(acc, cur)

\* path.replace(/\[(\d+)\]/g, '.$1').split('.').filter(key => key.length > 0)
\* over the lexemes: `cur` is the key being read ("" when none is begun).
\* A key is one run of characters in every path of the model (no run
\* follows a bracketed index directly, as in "a[0]b").
RECURSIVE SplitKeys(_, _, _)
SplitKeys(lex, cur, acc) ==
    IF lex = <<>>
    THEN Flush(acc, cur)
    ELSE SplitKeys(Tail(lex),
                   CASE Head(lex) = "." -> ""
                     [] BracketDigits(Head(lex)) # "" -> BracketDigits(Head(lex))
                     [] OTHER -> Head(lex),
                   Flush(acc, cur))

\* DeltaEngine.parsePath: an array is returned as it is (its elements are
\* strings in the model), a string is split, anything else throws.
ParsePath(path) ==
    CASE path.t = "array" ->
            [thrown |-> FALSE, keys |-> [i \in 1..Len(path.e) |-> path.e[i].s]]
      [] path.t = "string" ->
            [thrown |-> FALSE, keys |-> SplitKeys(PathLex(path.s), "", <<>>)]
      [] OTHER -> [thrown |-> TRUE, keys |-> <<>>]

RECURSIVE Walk(_, _)
Walk(current, keys) ==
    IF keys = <<>> THEN current
    ELSE IF IsNullish(current) THEN JsUndefined
    ELSE Walk(GetProp(current, Head(keys)), Tail(keys))

GetWith(obj, pp) ==
    IF pp.thrown
    THEN [thrown |-> TRUE, err |-> "Invalid path type", val |-> JsUndefined]
    ELSE [thrown |-> FALSE, err |-> "", val |-> Walk(obj, pp.keys)]

\* DeltaEngine.getNestedValue
GetNestedValue(obj, path) == GetWith(obj, ParsePath(path))

\* `current` with the outcome of the walk below it stored back under key.
Rejoin(current, key, r) ==
    IF IsContainer(current)
    THEN [thrown |-> r.thrown, val |-> SetProp(current, key, r.val)]
    ELSE [thrown |-> r.thrown, val |-> current]

\* The loop and the final assignment of setNestedValue, from `current` on;
\* `had` is current[key].  An assignment to a property of a primitive throws
\* a TypeError (module code is strict).  The result holds the value of
\* `current` afterwards.
RECURSIVE SetWalk(_, _, _, _)
SetWalk(current, had, keys, value) ==
    IF Len(keys) = 1
    THEN IF IsContainer(current)
         THEN [thrown |-> FALSE, val |-> SetProp(current, keys[1], value)]
         ELSE [thrown |-> TRUE, val |-> current]
    ELSE IF IsNullish(had) /\ ~IsContainer(current)
         THEN [thrown |-> TRUE, val |-> current]
         ELSE Rejoin(current, keys[1],
                     IF IsNullish(had)
                     THEN SetWalk(IF IsNumericKey(keys[2]) THEN JsArr(<<>>) ELSE JsObj(<<>>),
                                  JsUndefined, Tail(keys), value)
                     ELSE SetWalk(had, GetProp(had, keys[2]), Tail(keys), value))

SetOutcome(r) ==
    [thrown |-> r.thrown, err |-> IF r.thrown THEN "TypeError" ELSE "", doc |-> r.val]

SetWith(obj, pp, value) ==
    CASE pp.thrown -> [thrown |-> TRUE, err |-> "Invalid path type", doc |-> obj]
      [] pp.keys = <<>> -> [thrown |-> TRUE, err |-> "Empty path", doc |-> obj]
      [] OTHER -> SetOutcome(SetWalk(obj, GetProp(obj, pp.keys[1]), pp.keys, value))

\* DeltaEngine.setNestedValue: the document afterwards, or the error.
SetNestedValue(obj, path, value) == SetWith(obj, ParsePath(path), value)

DeleteRejoin(current, key, r) ==
    [ret |-> r.ret,
     val |-> IF IsContainer(current) THEN SetProp(current, key, r.val) ELSE current]

\* The loop and the removal of deleteNestedValue, from `current` on.
RECURSIVE DeleteWalk(_, _)
DeleteWalk(current, keys) ==
    IF Len(keys) = 1
    THEN CASE current.t = "array" ->
                IF IsNumericKey(keys[1]) /\ KeyIndex(keys[1]) < Len(current.e)
                THEN [ret |-> TRUE,
                      val |-> [current EXCEPT !.e = RemoveAt(current.e, KeyIndex(keys[1]) + 1)]]
                ELSE [ret |-> FALSE, val |-> current]
           [] current.t = "object" ->
                IF HasOwn(current, keys[1])
                THEN [ret |-> TRUE, val |-> DeleteProp(current, keys[1])]
                ELSE [ret |-> FALSE, val |-> current]
           [] OTHER -> [ret |-> FALSE, val |-> current]
    ELSE IF IsNullish(GetProp(current, keys[1]))
         THEN [ret |-> FALSE, val |-> current]
         ELSE DeleteRejoin(current, keys[1], DeleteWalk(GetProp(current, keys[1]), Tail(keys)))

DeleteOutcome(r) == [thrown |-> FALSE, err |-> "", ret |-> r.ret, doc |-> r.val]

DeleteWith(obj, pp) ==
    CASE pp.thrown -> [thrown |-> TRUE, err |-> "Invalid path type", ret |-> FALSE, doc |-> obj]
      [] pp.keys = <<>> -> [thrown |-> FALSE, err |-> "", ret |-> FALSE, doc |-> obj]
      [] OTHER -> DeleteOutcome(DeleteWalk(obj, pp.keys))

\* DeltaEngine.deleteNestedValue
DeleteNestedValue(obj, path) == DeleteWith(obj, ParsePath(path))

\* The document with the array or object that `keys` leads to replaced by
\* `val`: the effect of mutating that container in place (push, splice).
RECURSIVE ReplaceAt(_, _, _)
ReplaceAt(current, keys, val) ==
    IF keys = <<>> THEN val
    ELSE SetProp(current, Head(keys), ReplaceAt(GetProp(current, Head(keys)), Tail(keys), val))


(***************************************************************************)
(* The delta engine.  An operation is [nul, op, path, value]: nul is TRUE  *)
(* of a null or undefined operation, a missing field is JsUndefined.       *)
(***************************************************************************)
Operation(op, path, value) == [nul |-> FALSE, op |-> op, path |-> path, value |-> value]

NullOperation == [nul |-> TRUE, op |-> JsUndefined, path |-> JsUndefined, value |-> JsUndefined]

\* Object.values(OPERATION_TYPES)
OPERATION_TYPES == {"set", "add", "remove", "append", "increment", "delete"}

maxHistory == 50

ValidationOf(errors) == [valid |-> errors = <<>>, errors |-> errors]

\* DeltaEngine.validate
Validate(operation) ==
    IF operation.nul
    THEN ValidationOf(<<"Operation is null or undefined">>)
    ELSE ValidationOf(
            (IF ~Truthy(operation.op)
             THEN <<"Missing operation type (op)">>
             ELSE IF ~(operation.op.t = "string" /\ operation.op.s \in OPERATION_TYPES)
                  THEN <<"Unknown operation type">>
                  ELSE <<>>)
            \o (IF ~Truthy(operation.path) THEN <<"Missing path">> ELSE <<>>))

Ok(doc) == [thrown |-> FALSE, err |-> "", doc |-> doc]

Thrown(err, doc) == [thrown |-> TRUE, err |-> err, doc |-> doc]

Keys(path) == ParsePath(path).keys

SetResult(r) == [thrown |-> r.thrown, err |-> r.err, doc |-> r.doc]

\* DeltaEngine.applySet
ApplySet(data, path, value) == SetResult(SetNestedValue(data, path, value))

Includes(es, v) == \E i \in 1..Len(es) : SameValueZero(es[i], v)

\* applyAdd (dedup TRUE) and applyAppend (dedup FALSE) once `current` is
\* read: g is the outcome of getNestedValue.
PushWith(data, path, value, g, dedup) ==
    CASE g.thrown -> Thrown(g.err, data)
      [] g.val.t = "array" ->
            IF dedup /\ value.t \in {"string", "number"} /\ Includes(g.val.e, value)
            THEN Ok(data)
            ELSE Ok(ReplaceAt(data, Keys(path), [g.val EXCEPT !.e = Append(@, value)]))
      [] OTHER ->
            ApplySet(data, path,
                     IF IsNullish(g.val) THEN JsArr(<<value>>) ELSE JsArr(<<g.val, value>>))

\* applyAdd without the search for the value in the array.
AddWithoutDedup(data, path, value) ==
    PushWith(data, path, value, GetNestedValue(data, path), FALSE)

\* DeltaEngine.applyAdd
ApplyAdd(data, path, value) ==
    PushWith(data, path, value, GetNestedValue(data, path), TRUE)

\* DeltaEngine.applyAppend
ApplyAppend(data, path, value) ==
    PushWith(data, path, value, GetNestedValue(data, path), FALSE)

\* Object.entries(value) of an array or an object, as [k, v].
Entries(value) ==
    [i \in 1..Len(value.e) |-> Prop(IndexKeys[i], value.e[i])] \o value.p

\* The callback of findIndex in applyRemove on one item, `entries` being
\* Object.entries(value): "throw" where item[key] is read of a null item.
MatchItem(item, entries) ==
    CASE ~TypeofObject(item) -> "no"
      [] entries = <<>> -> "yes"
      [] item.t = "null" -> "throw"
      [] OTHER ->
            IF \A i \in 1..Len(entries) : StrictEq(GetProp(item, entries[i].k), entries[i].v)
            THEN "yes"
            ELSE "no"

FindNext(es, entries, i, m) ==
    CASE m = "yes" -> i
      [] m = "throw" -> -1
      [] OTHER -> 0

\* findIndex: the first matching index, 0 for none, -1 when the callback
\* throws before a match.
RECURSIVE FindMatch(_, _, _)
FindMatch(es, entries, i) ==
    IF i > Len(es) THEN 0
    ELSE IF MatchItem(es[i], entries) = "no"
         THEN FindMatch(es, entries, i + 1)
         ELSE FindNext(es, entries, i, MatchItem(es[i], entries))

\* indexOf: the first index that is strictly equal, 0 for none.
IndexOf(es, v) ==
    IF \E i \in 1..Len(es) : StrictEq(es[i], v)
    THEN CHOOSE i \in 1..Len(es) :
            StrictEq(es[i], v) /\ \A j \in 1..(i - 1) : ~StrictEq(es[j], v)
    ELSE 0

\* The index applyRemove splices out of the array: 0 for none, -1 when the
\* search throws (Object.entries(null), or a property read of a null item).
RemoveIndex(es, value) ==
    CASE value.t \in {"string", "number"} -> IndexOf(es, value)
      [] value.t = "null" ->
            IF \E i \in 1..Len(es) : TypeofObject(es[i]) THEN -1 ELSE 0
      [] TypeofObject(value) -> FindMatch(es, Entries(value), 1)
      [] OTHER -> 0

Splice(data, path, current, i) ==
    CASE i = -1 -> Thrown("TypeError", data)
      [] i = 0 -> Ok(data)
      [] OTHER -> Ok(ReplaceAt(data, Keys(path), [current EXCEPT !.e = RemoveAt(@, i)]))

\* applyRemove without the early return for a value that is no array.
RemoveUnguarded(data, path, value, g) ==
    CASE g.thrown -> Thrown(g.err, data)
      [] g.val.t # "array" -> Thrown("TypeError", data)
      [] OTHER -> Splice(data, path, g.val, RemoveIndex(g.val.e, value))

RemoveWith(data, path, value, g) ==
    CASE g.thrown -> Thrown(g.err, data)
      [] g.val.t # "array" -> Ok(data)
      [] OTHER -> Splice(data, path, g.val, RemoveIndex(g.val.e, value))

\* DeltaEngine.applyRemove
ApplyRemove(data, path, value) == RemoveWith(data, path, value, GetNestedValue(data, path))

\* The increment strings of the model after value.trim() and the rewrite of
\* a leading "." or "-." to "0." or "-0.".
NormalizeIncrement(s) ==
    CASE s = ".5" -> "0.5"
      [] s = "-.5" -> "-0.5"
      [] s = " 5 " -> "5"
      [] OTHER -> s

\* parseFloat of a string of the model: a number in tenths, or NaN.
ParseFloat(s) ==
    CASE s \in {"0.5", ".5"} -> JsTenths(5)
      [] s \in {"-0.5", "-.5"} -> JsTenths(-5)
      [] s \in {"5", " 5 ", "5px"} -> JsNum(5)
      [] s = "1" -> JsNum(1)
      [] s = "-10" -> JsNum(-10)
      [] OTHER -> JsNaN

\* The increment applyIncrement reads from the operation's value: parseFloat
\* of a value that is neither a number nor a string is that of its text,
\* and the text of an array begins with the text of its first element.
ParseIncrement(value) ==
    CASE value.t = "number" -> value
      [] value.t = "string" -> ParseFloat(NormalizeIncrement(value.s))
      [] value.t = "array" /\ value.e # <<>> /\ value.e[1].t = "number" -> value.e[1]
      [] value.t = "array" /\ value.e # <<>> /\ value.e[1].t = "string" ->
            ParseFloat(value.e[1].s)
      [] OTHER -> JsNaN

\* currentNum + increment, an increment that is NaN counting as 0.
IncrementSum(current, parsed) ==
    CASE current.t # "number" -> IF IsNaN(parsed) THEN JsNum(0) ELSE parsed
      [] IsNaN(current) -> JsNaN
      [] IsNaN(parsed) -> current
      [] OTHER -> JsTenths(current.n + parsed.n)

IncrementWith(data, path, value, g) ==
    IF g.thrown
    THEN Thrown(g.err, data)
    ELSE ApplySet(data, path, IncrementSum(g.val, ParseIncrement(value)))

\* DeltaEngine.applyIncrement
ApplyIncrement(data, path, value) ==
    IncrementWith(data, path, value, GetNestedValue(data, path))

\* DeltaEngine.applyDelete
ApplyDelete(data, path) == SetResult(DeleteNestedValue(data, path))

\* The switch of DeltaEngine.apply.
Dispatch(data, op, path, value) ==
    CASE op = "set" -> ApplySet(data, path, value)
      [] op = "add" -> ApplyAdd(data, path, value)
      [] op = "remove" -> ApplyRemove(data, path, value)
      [] op = "append" -> ApplyAppend(data, path, value)
      [] op = "increment" -> ApplyIncrement(data, path, value)
      [] op = "delete" -> ApplyDelete(data, path)
      [] OTHER -> Thrown("Unhandled operation type", data)

PushHistory(history, entry) ==
    IF Len(history) + 1 > maxHistory THEN Tail(Append(history, entry)) ELSE Append(history, entry)

\* validate without the check of the path.
ValidateNoPath(operation) ==
    IF operation.nul THEN Validate(operation)
    ELSE Validate([operation EXCEPT !.path = JsStr("a")])

\* The validation step of DeltaEngine.apply.
ApplyValidation(operation) == Validate(operation)

\* The end of apply: r is what the switch did, g.val the old value.
ApplyFinish(history, operation, g, r) ==
    IF r.thrown
    THEN [thrown |-> TRUE, err |-> r.err, doc |-> r.doc, history |-> history]
    ELSE [thrown |-> FALSE, err |-> "", doc |-> r.doc,
          history |-> PushHistory(history, [operation |-> operation, oldValue |-> g.val])]

ApplyWith(data, history, operation, validation, g) ==
    CASE ~validation.valid ->
            [thrown |-> TRUE, err |-> "Invalid operation", doc |-> data, history |-> history]
      [] g.thrown ->
            [thrown |-> TRUE, err |-> g.err, doc |-> data, history |-> history]
      [] OTHER ->
            ApplyFinish(history, operation, g,
                        Dispatch(data, IF operation.op.t = "string" THEN operation.op.s ELSE "",
                                 operation.path, operation.value))

\* DeltaEngine.apply on the document `data` of an engine whose history is
\* `history`: the document and the history afterwards, and whether it threw.
\* The timestamp of a history entry is left out.
Apply(data, history, operation) ==
    ApplyWith(data, history, operation, ApplyValidation(operation),
              GetNestedValue(data, operation.path))

Result(success, operation, error) ==
    [success |-> success, operation |-> operation, error |-> error]

BatchCons(result, rest) ==
    [doc |-> rest.doc, history |-> rest.history, results |-> <<result>> \o rest.results]

\* applyBatch that lets the first failure end the loop.
RECURSIVE ApplyBatchAborting(_, _, _)
AbortingNext(operation, rest, r) ==
    IF r.thrown
    THEN [doc |-> r.doc, history |-> r.history,
          results |-> <<Result(FALSE, operation, r.err)>>]
    ELSE BatchCons(Result(TRUE, operation, ""), ApplyBatchAborting(r.doc, r.history, rest))

ApplyBatchAborting(data, history, operations) ==
    IF operations = <<>>
    THEN [doc |-> data, history |-> history, results |-> <<>>]
    ELSE AbortingNext(Head(operations), Tail(operations),
                      Apply(data, history, Head(operations)))

\* DeltaEngine.applyBatch: the document, the history and the result list.
RECURSIVE ApplyBatch(_, _, _)
BatchNext(operation, rest, r) ==
    BatchCons(Result(~r.thrown, operation, r.err), ApplyBatch(r.doc, r.history, rest))

ApplyBatch(data, history, operations) ==
    IF operations = <<>>
    THEN [doc |-> data, history |-> history, results |-> <<>>]
    ELSE BatchNext(Head(operations), Tail(operations), Apply(data, history, Head(operations)))

(***************************************************************************)
(* preview and previewBatch.  A preview is {path, op, oldValue, newValue}. *)
(* oldValue is `current`, what getNestedValue returned: where that is an   *)
(* array or an object it is the object of the document itself, not a copy, *)
(* so it shows whatever is done to that object later.  The operations of   *)
(* the model carry no path through an index of an array, and the elements  *)
(* a new value shares with the document are never touched again.           *)
(***************************************************************************)
\* What a function returns or throws.
Returned(val) == [thrown |-> FALSE, err |-> "", val |-> val]

Raised(err) == [thrown |-> TRUE, err |-> err, val |-> JsUndefined]

\* parseInt(s, 10) of a string of the model: a number, or NaN.
ParseInt(s) ==
    CASE s \in {"5", " 5 ", "5px"} -> JsNum(5)
      [] s \in {"0.5", "-0.5"} -> JsNum(0)
      [] s = "1" -> JsNum(1)
      [] s = "2" -> JsNum(2)
      [] s = "3" -> JsNum(3)
      [] s = "-10" -> JsNum(-10)
      [] OTHER -> JsNaN

\* inc of preview: the value if it is a number, else parseInt of its text.
PreviewIncrement(value) ==
    CASE value.t = "number" -> value
      [] value.t = "string" -> ParseInt(value.s)
      [] value.t = "array" /\ value.e # <<>> /\ value.e[1].t = "string" ->
            ParseInt(value.e[1].s)
      [] OTHER -> JsNaN

\* currentNum + inc: NaN where inc is NaN.
PreviewSum(current, inc) ==
    CASE IsNaN(inc) -> JsNaN
      [] current.t # "number" -> inc
      [] IsNaN(current) -> JsNaN
      [] OTHER -> JsTenths(current.n + inc.n)

\* The callback of filter in preview on one item: "throw" where
\* Object.entries(null) or item[key] of a null or undefined item is read.
KeepItem(item, value) ==
    CASE ~TypeofObject(value) -> IF StrictEq(item, value) THEN "drop" ELSE "keep"
      [] value.t = "null" -> "throw"
      [] Entries(value) = <<>> -> "drop"
      [] IsNullish(item) -> "throw"
      [] OTHER ->
            IF \A i \in 1..Len(Entries(value)) :
                  StrictEq(GetProp(item, Entries(value)[i].k), Entries(value)[i].v)
            THEN "drop"
            ELSE "keep"

\* newValue of preview for `current` and the operation, or its throw.
NewValue(current, op, value) ==
    CASE op = JsStr("set") -> Returned(value)
      [] op \in {JsStr("add"), JsStr("append")} ->
            Returned(CASE current.t = "array" -> JsArr(Append(current.e, value))
                       [] current = JsUndefined -> JsArr(<<value>>)
                       [] OTHER -> JsArr(<<current, value>>))
      [] op = JsStr("remove") ->
            IF current.t # "array" THEN Returned(current)
            ELSE IF \E i \in 1..Len(current.e) : KeepItem(current.e[i], value) = "throw"
            THEN Raised("TypeError")
            ELSE Returned(JsArr(SelectSeq(current.e,
                                          LAMBDA item : KeepItem(item, value) = "keep")))
      [] op = JsStr("increment") -> Returned(PreviewSum(current, PreviewIncrement(value)))
      [] op = JsStr("delete") -> Returned(JsUndefined)
      [] OTHER -> Returned(value)

NoPreview(err) ==
    [thrown |-> TRUE, err |-> err, path |-> JsUndefined, op |-> JsUndefined,
     oldValue |-> JsUndefined, newValue |-> JsUndefined]

PreviewWith(operation, g, made) ==
    CASE g.thrown -> NoPreview(g.err)
      [] made.thrown -> NoPreview(made.err)
      [] OTHER -> [thrown |-> FALSE, err |-> "", path |-> operation.path, op |-> operation.op,
                   oldValue |-> g.val, newValue |-> made.val]

\* DeltaEngine.preview: it reads operation.path of a null operation.
Preview(data, operation) ==
    IF operation.nul THEN NoPreview("TypeError")
    ELSE PreviewWith(operation, GetNestedValue(data, operation.path),
                     NewValue(GetNestedValue(data, operation.path).val, operation.op,
                              operation.value))

IsPrefix(a, b) == Len(a) <= Len(b) /\ SubSeq(b, 1, Len(a)) = a

\* apply puts a new value where the path leads (set, increment, delete,
\* add and append where there is no array) instead of changing the array
\* it finds there (add, append, remove).
Replaces(simulated, operation) ==
    \/ operation.op \in {JsStr("set"), JsStr("increment"), JsStr("delete")}
    \/ /\ operation.op \in {JsStr("add"), JsStr("append")}
       /\ GetNestedValue(simulated, operation.path).val.t # "array"

\* A preview previewBatch has pushed: `held` says whether oldValue is an
\* object still in `simulated`, and under which keys.
Held(pv, keys) ==
    [path |-> pv.path, op |-> pv.op, oldValue |-> pv.oldValue, newValue |-> pv.newValue,
     held |-> IsContainer(pv.oldValue), keys |-> keys]

\* The preview after this.apply(simulated, operation) with outcome r: the
\* object it holds has left the document, as it was, where the operation
\* put a new value at its place or above it.  A throw of apply comes before
\* anything is assigned.
Rebase(p, simulated, operation, r) ==
    IF /\ p.held
       /\ ~r.thrown
       /\ Keys(operation.path) # <<>>
       /\ IsPrefix(Keys(operation.path), p.keys)
       /\ Replaces(simulated, operation)
    THEN [p EXCEPT !.held = FALSE, !.oldValue = Walk(simulated, p.keys)]
    ELSE p

\* The preview as the caller of previewBatch finds it in the result.
Settled(p, simulated) ==
    [path |-> p.path, op |-> p.op,
     oldValue |-> IF p.held THEN Walk(simulated, p.keys) ELSE p.oldValue,
     newValue |-> p.newValue]

\* The loop of previewBatch on the clone `simulated`: a throw of preview
\* leaves previewBatch, a throw of apply is ignored.
RECURSIVE PreviewBatchFrom(_, _, _, _)
PreviewBatchNext(simulated, operation, rest, previews, pv, r) ==
    IF pv.thrown
    THEN [thrown |-> TRUE, history |-> r.history, previews |-> <<>>]
    ELSE PreviewBatchFrom(r.doc, r.history, rest,
                          Append([i \in 1..Len(previews) |->
                                     Rebase(previews[i], simulated, operation, r)],
                                 Held(pv, Keys(operation.path))))

PreviewBatchFrom(simulated, history, operations, previews) ==
    IF operations = <<>>
    THEN [thrown |-> FALSE, history |-> history,
          previews |-> [i \in 1..Len(previews) |-> Settled(previews[i], simulated)]]
    ELSE PreviewBatchNext(simulated, Head(operations), Tail(operations), previews,
                          Preview(simulated, Head(operations)),
                          IF Preview(simulated, Head(operations)).thrown
                          THEN [doc |-> simulated, history |-> history]
                          ELSE Apply(simulated, history, Head(operations)))

\* DeltaEngine.previewBatch: the previews it returns and the history of the
\* engine afterwards; structuredClone(data) is `data` under another name.
PreviewBatch(data, history, operations) == PreviewBatchFrom(data, history, operations, <<>>)

(***************************************************************************)
(* The NPC registry and the classifier.  A sidecar is a JavaScript object  *)
(* like any document of the engine.  new Date().toISOString() is Now.      *)
(***************************************************************************)
NPC_CLASSIFICATION == [MINOR |-> JsStr("minor"), MAJOR |-> JsStr("major")]

Now == JsStr("t1")

MINOR_NPC_SCHEMA ==
    JsObj(<<
        Prop("meta", JsObj(<<
            Prop("npcId", JsStr("")), Prop("name", JsStr("")),
            Prop("classification", JsStr("minor")),
            Prop("firstAppearance", JsStr("")), Prop("lastSeen", JsStr("")),
            Prop("appearanceCount", JsNum(0)), Prop("userPinned", JsBool(FALSE)),
            Prop("createdAt", JsStr("")), Prop("lastUpdated", JsStr(""))>>)),
        Prop("data", JsObj(<<
            Prop("notes", JsStr("")), Prop("sentiment", JsStr("")),
            Prop("lastContext", JsStr(""))>>))>>)

MAJOR_NPC_SCHEMA ==
    JsObj(<<
        Prop("meta", JsObj(<<
            Prop("npcId", JsStr("")), Prop("name", JsStr("")),
            Prop("classification", JsStr("major")),
            Prop("firstAppearance", JsStr("")), Prop("lastSeen", JsStr("")),
            Prop("appearanceCount", JsNum(0)), Prop("userPinned", JsBool(FALSE)),
            Prop("promotedFrom", JsNull), Prop("promotionReason", JsStr("")),
            Prop("createdAt", JsStr("")), Prop("lastUpdated", JsStr(""))>>)),
        Prop("trackers", JsObj(<<
            Prop("status", JsObj(<<
                Prop("health", JsStr("Unknown")), Prop("energy", JsStr("Unknown")),
                Prop("mood", JsStr("Unknown")), Prop("conditions", JsArr(<<>>))>>)),
            Prop("appearance", JsObj(<<
                Prop("clothing", JsStr("")), Prop("physical", JsStr(""))>>)),
            Prop("inventory", JsObj(<<
                Prop("equipped", JsObj(<<
                    Prop("mainHand", JsStr("Unknown")), Prop("offHand", JsStr("Unknown"))>>)),
                Prop("bag", JsArr(<<>>))>>)),
            Prop("personality", JsObj(<<
                Prop("traits", JsArr(<<>>)), Prop("goals", JsArr(<<>>)),
                Prop("fears", JsArr(<<>>)), Prop("motivations", JsStr(""))>>)),
            Prop("relationships", JsObj(<<>>)),
            Prop("knowledge", JsArr(<<>>))>>)),
        Prop("timeline", JsArr(<<>>)),
        Prop("narrativeRole", JsObj(<<
            Prop("archetype", JsStr("")), Prop("storyFunction", JsStr("")),
            Prop("conflictsWith", JsArr(<<>>)), Prop("alliedWith", JsArr(<<>>))>>))>>)

\* o.k1.k2 of a sidecar whose o.k1 is neither null nor undefined.
Get2(o, k1, k2) == GetProp(GetProp(o, k1), k2)

\* v?.k
Opt(v, k) == IF IsNullish(v) THEN JsUndefined ELSE GetProp(v, k)

\* a || b
OrElse(a, b) == IF Truthy(a) THEN a ELSE b

\* The assignments o[k] = v of a list of [k, v], in order; also the object
\* literal {...o, k: v, ...}.
RECURSIVE Assign(_, _)
Assign(o, kvs) ==
    IF kvs = <<>> THEN o ELSE Assign(SetProp(o, Head(kvs).k, Head(kvs).v), Tail(kvs))

\* o.k1.k2 = v
Set2(o, k1, k2, v) == SetProp(o, k1, SetProp(GetProp(o, k1), k2, v))

\* o.k1.k2.push(v)
Push2(o, k1, k2, v) == Set2(o, k1, k2, JsArr(Append(Get2(o, k1, k2).e, v)))

\* The characters of the names of the model.
NameChars(name) ==
    CASE name = "Tom" -> <<"T", "o", "m">>
      [] name = "tom" -> <<"t", "o", "m">>
      [] name = "Ann" -> <<"A", "n", "n">>
      [] name = "" -> <<>>

\* toLowerCase of one character, then /\s+/ -> '_' (no name of the model
\* has two spaces in a row), then what /[^a-z0-9_]/ leaves.
IdChar(c) ==
    CASE c = "T" -> "t"
      [] c = "A" -> "a"
      [] c = " " -> "_"
      [] c \in {"o", "m", "n", "t"} -> c
      [] OTHER -> ""

RECURSIVE IdText(_)
IdText(chars) == IF chars = <<>> THEN "" ELSE IdChar(Head(chars)) \o IdText(Tail(chars))

\* NPCRegistry.generateNpcId
GenerateNpcId(name) ==
    IF ~Truthy(name) THEN JsNull ELSE JsStr("npc_" \o IdText(NameChars(name.s)))

\* String(v) of the values a template or a join meets in the model.
ToText(v) ==
    CASE v.t = "string" -> v.s
      [] v.t = "undefined" -> "undefined"
      [] v.t = "null" -> "null"
      [] v.t = "object" -> "[object Object]"
      [] v.t = "number" /\ v.n % 10 = 0 /\ v.n >= 0 -> ToString(v.n \div 10)
      [] OTHER -> "?"

\* es.join(sep) of an array of strings.
RECURSIVE Join(_, _)
Join(es, sep) ==
    CASE es = <<>> -> ""
      [] Len(es) = 1 -> ToText(es[1])
      [] OTHER -> ToText(es[1]) \o sep \o Join(Tail(es), sep)

\* Which of the words getSentimentTrustLevel looks for the lower-cased
\* sentiments of the model contain.
SentimentWords(s) ==
    CASE s = "Friendly" -> {"friend"}
      [] s = "Hostile" -> {"hostile"}
      [] OTHER -> {}

\* getSentimentTrustLevel of nothing or of a string (toLowerCase is no
\* function of anything else: see MigrateToMajor).
GetSentimentTrustLevel(sentiment) ==
    IF ~Truthy(sentiment) THEN JsNum(50)
    ELSE IF SentimentWords(sentiment.s) \cap {"friend", "ally", "love", "trust"} # {}
    THEN JsNum(75)
    ELSE IF SentimentWords(sentiment.s) \cap {"warm", "positive", "helpful", "kind"} # {}
    THEN JsNum(65)
    ELSE IF SentimentWords(sentiment.s) \cap {"enemy", "hostile", "hate", "distrust"} # {}
    THEN JsNum(15)
    ELSE IF SentimentWords(sentiment.s) \cap {"cold", "negative", "suspicious", "wary"} # {}
    THEN JsNum(30)
    ELSE JsNum(50)

Event(event, timestamp) == JsObj(<<Prop("event", event), Prop("timestamp", timestamp)>>)

\* o.timeline.push(entry)
TimelinePush(o, entry) == SetProp(o, "timeline", JsArr(Append(GetProp(o, "timeline").e, entry)))

\* sidecar.data.k where sidecar.data is read only if it is truthy.
DataOf(sidecar, k) ==
    IF Truthy(GetProp(sidecar, "data")) THEN Get2(sidecar, "data", k) ELSE JsUndefined

\* A migration that leaves the pin behind.
DroppedPin(meta) == JsBool(FALSE)

\* userPinned: sidecar.meta.userPinned || false
CarriedPin(meta) == OrElse(GetProp(meta, "userPinned"), JsBool(FALSE))

\* The meta object both migrations build: the schema's meta with the fields
\* carried over from `meta`, then `more`.
MigratedMeta(schema, classification, meta, more) ==
    Assign(GetProp(schema, "meta"),
           <<Prop("npcId", GetProp(meta, "npcId")),
             Prop("name", GetProp(meta, "name")),
             Prop("classification", classification),
             Prop("firstAppearance", GetProp(meta, "firstAppearance")),
             Prop("lastSeen", OrElse(GetProp(meta, "lastSeen"), Now)),
             Prop("appearanceCount", OrElse(GetProp(meta, "appearanceCount"), JsNum(1))),
             Prop("userPinned", CarriedPin(meta))>>
           \o more \o
           <<Prop("createdAt", OrElse(GetProp(meta, "createdAt"), Now)),
             Prop("lastUpdated", Now)>>)

MajorWithNotes(o, notes, firstAppearance) ==
    IF Truthy(notes)
    THEN TimelinePush(Push2(o, "trackers", "knowledge", notes),
                      Event(JsStr("First tracked: " \o ToText(notes)),
                            OrElse(firstAppearance, Now)))
    ELSE o

MajorWithSentiment(o, sentiment) ==
    IF Truthy(sentiment)
    THEN Set2(o, "trackers", "relationships",
              SetProp(Get2(o, "trackers", "relationships"), "mainCharacter",
                      JsObj(<<Prop("sentiment", sentiment),
                              Prop("trustLevel", GetSentimentTrustLevel(sentiment)),
                              Prop("notes", JsStr("Relationship established during minor tracking"))>>)))
    ELSE o

MajorWithLastContext(o, lastContext, lastSeen) ==
    IF Truthy(lastContext) THEN TimelinePush(o, Event(lastContext, OrElse(lastSeen, Now))) ELSE o

\* What a migration returns or throws.
Migrated(val) == [thrown |-> FALSE, err |-> "", val |-> val]

MigrationThrown(err) == [thrown |-> TRUE, err |-> err, val |-> JsUndefined]

\* migrateToMajor
MigrateToMajor(minorSidecar, reason) ==
    IF ~Truthy(minorSidecar) \/ ~Truthy(GetProp(minorSidecar, "meta"))
    THEN MigrationThrown("Invalid minor sidecar provided for migration")
    ELSE IF Truthy(DataOf(minorSidecar, "sentiment")) /\ DataOf(minorSidecar, "sentiment").t # "string"
    THEN MigrationThrown("TypeError")
    ELSE Migrated(
            MajorWithLastContext(
                MajorWithSentiment(
                    MajorWithNotes(
                        SetProp(MAJOR_NPC_SCHEMA, "meta",
                                MigratedMeta(MAJOR_NPC_SCHEMA, NPC_CLASSIFICATION.MAJOR,
                                             GetProp(minorSidecar, "meta"),
                                             <<Prop("promotedFrom", NPC_CLASSIFICATION.MINOR),
                                               Prop("promotionReason", reason)>>)),
                        DataOf(minorSidecar, "notes"),
                        Get2(minorSidecar, "meta", "firstAppearance")),
                    DataOf(minorSidecar, "sentiment")),
                DataOf(minorSidecar, "lastContext"),
                Get2(minorSidecar, "meta", "lastSeen")))

\* v?.length > 0 and the elements of v: the sidecars of the model hold an
\* array or nothing where migrateToMinor reads a length.
Elems(v) == IF v.t = "array" THEN v.e ELSE <<>>

Last(es) == es[Len(es)]

\* One entry of noteParts, pushed if `cond` holds.
NotePart(cond, label, text) == IF cond THEN <<JsStr(label \o text)>> ELSE <<>>

\* noteParts of migrateToMinor; trackers is majorSidecar.trackers.
NoteParts(majorSidecar, trackers, timeline) ==
    (IF Truthy(Opt(trackers, "personality"))
     THEN NotePart(Elems(Get2(trackers, "personality", "traits")) # <<>>, "Traits: ",
                   Join(SubSeq(Elems(Get2(trackers, "personality", "traits")), 1,
                               IF Len(Elems(Get2(trackers, "personality", "traits"))) < 3
                               THEN Len(Elems(Get2(trackers, "personality", "traits"))) ELSE 3),
                        ", "))
          \o NotePart(Truthy(Get2(trackers, "personality", "motivations")), "Motivation: ",
                      ToText(Get2(trackers, "personality", "motivations")))
     ELSE <<>>)
    \o (IF Truthy(GetProp(majorSidecar, "narrativeRole"))
        THEN NotePart(Truthy(Get2(majorSidecar, "narrativeRole", "archetype")), "Role: ",
                      ToText(Get2(majorSidecar, "narrativeRole", "archetype")))
             \o NotePart(Truthy(Get2(majorSidecar, "narrativeRole", "storyFunction")),
                         "Function: ",
                         ToText(Get2(majorSidecar, "narrativeRole", "storyFunction")))
        ELSE <<>>)
    \o NotePart(timeline # <<>>, "Last known: ",
                IF timeline # <<>> THEN ToText(GetProp(Last(timeline), "event")) ELSE "")
    \o NotePart(Elems(Opt(trackers, "knowledge")) # <<>>, "Knows: ",
                Join(SubSeq(Elems(Opt(trackers, "knowledge")),
                            IF Len(Elems(Opt(trackers, "knowledge"))) > 2
                            THEN Len(Elems(Opt(trackers, "knowledge"))) - 1 ELSE 1,
                            Len(Elems(Opt(trackers, "knowledge")))),
                     "; "))

\* Object.values(relationships || {}) of an object or nothing.
Values(relationships) ==
    IF relationships.t = "object"
    THEN [i \in 1..Len(relationships.p) |-> relationships.p[i].v]
    ELSE <<>>

\* The sentiment migrateToMinor extracts; relationships is
\* majorSidecar.trackers?.relationships.
MinorSentiment(relationships) ==
    IF Truthy(Opt(relationships, "mainCharacter"))
    THEN OrElse(Get2(relationships, "mainCharacter", "sentiment"), JsStr("Neutral"))
    ELSE IF Values(relationships) # <<>>
         THEN OrElse(GetProp(Values(relationships)[1], "sentiment"), JsStr("Neutral"))
         ELSE JsStr("Neutral")

\* Where migrateToMinor reads a property of null or undefined: the last
\* timeline entry, or the first relationship when there is no mainCharacter.
MinorThrows(relationships, timeline) ==
    \/ timeline # <<>> /\ IsNullish(Last(timeline))
    \/ /\ ~Truthy(Opt(relationships, "mainCharacter"))
       /\ Values(relationships) # <<>>
       /\ IsNullish(Values(relationships)[1])

MinorData(majorSidecar, parts, relationships, timeline) ==
    JsObj(<<Prop("notes", OrElse(JsStr(Join(parts, ". ")), Get2(majorSidecar, "meta", "name"))),
            Prop("sentiment", MinorSentiment(relationships)),
            Prop("lastContext",
                 IF timeline # <<>> THEN GetProp(Last(timeline), "event") ELSE JsStr(""))>>)

\* migrateToMinor
MigrateToMinor(majorSidecar, reason) ==
    IF ~Truthy(majorSidecar) \/ ~Truthy(GetProp(majorSidecar, "meta"))
    THEN MigrationThrown("Invalid major sidecar provided for migration")
    ELSE IF MinorThrows(Opt(GetProp(majorSidecar, "trackers"), "relationships"),
                        Elems(GetProp(majorSidecar, "timeline")))
    THEN MigrationThrown("TypeError")
    ELSE Migrated(
            Assign(MINOR_NPC_SCHEMA,
                   <<Prop("meta", MigratedMeta(MINOR_NPC_SCHEMA, NPC_CLASSIFICATION.MINOR,
                                               GetProp(majorSidecar, "meta"), <<>>)),
                     Prop("data",
                          MinorData(majorSidecar,
                                    NoteParts(majorSidecar, GetProp(majorSidecar, "trackers"),
                                              Elems(GetProp(majorSidecar, "timeline"))),
                                    Opt(GetProp(majorSidecar, "trackers"), "relationships"),
                                    Elems(GetProp(majorSidecar, "timeline"))))>>))

\* {...op}: the copy of a null or undefined operation has no field.
Spread(op) == IF op.nul THEN Operation(JsUndefined, JsUndefined, JsUndefined) ELSE op

\* The callback of map in remapOperationsForClassification on a copy of an
\* operation whose path, under 'minor', is a string.
RemapOp(op, classification) ==
    CASE classification = NPC_CLASSIFICATION.MINOR ->
            IF StartsWith(op.path.s, "trackers.status.mood")
            THEN [op EXCEPT !.path = JsStr("data.sentiment")]
            ELSE IF StartsWith(op.path.s, "trackers.") \/ StartsWith(op.path.s, "narrativeRole.")
            THEN [op EXCEPT !.path = JsStr("data.notes"), !.op = JsStr("set")]
            ELSE op
      [] classification = NPC_CLASSIFICATION.MAJOR ->
            IF op.path = JsStr("data.notes")
            THEN [op EXCEPT !.path = JsStr("trackers.knowledge"), !.op = JsStr("add")]
            ELSE IF op.path = JsStr("data.sentiment")
            THEN [op EXCEPT !.path = JsStr("trackers.relationships.mainCharacter.sentiment")]
            ELSE IF op.path = JsStr("data.lastContext")
            THEN [op EXCEPT !.path = JsStr("timeline"), !.op = JsStr("append"),
                            !.value = Event(op.value, Now)]
            ELSE op
      [] OTHER -> op

\* Under 'minor', path.startsWith throws where the path is no string.
RemapThrows(op, classification) ==
    classification = NPC_CLASSIFICATION.MINOR /\ Spread(op).path.t # "string"

\* The filter at the end of remapOperationsForClassification.
RemapKeeps(op) == Truthy(op.path) /\ op.value # JsUndefined

\* remapOperationsForClassification on an array of operations.
RemapOperationsForClassification(operations, classification) ==
    IF \E i \in 1..Len(operations) : RemapThrows(operations[i], classification)
    THEN [thrown |-> TRUE, ops |-> <<>>]
    ELSE [thrown |-> FALSE,
          ops |-> SelectSeq([i \in 1..Len(operations) |->
                                RemapOp(Spread(operations[i]), classification)],
                            RemapKeeps)]

\* this.registry.npcs[npcId] for any value of npcId.
NpcAt(registry, npcId) ==
    IF npcId.t = "string" /\ npcId.s \in DOMAIN registry THEN registry[npcId.s] ELSE JsUndefined

\* NPCRegistry.getNPC
GetNPC(registry, npcId) ==
    IF ~Truthy(npcId) THEN JsNull ELSE OrElse(NpcAt(registry, npcId), JsNull)

\* NPCRegistry.hasNPC
HasNPC(registry, npcId) == NpcAt(registry, npcId) # JsUndefined

\* npc.meta.k = v: a TypeError where npc.meta is no object (strict code).
MetaAssignable(npc) == IsContainer(GetProp(npc, "meta"))

\* getOrCreate, new sidecar: the fields of meta it assigns.
NewMeta(schema, npcId, name, classification) ==
    Assign(GetProp(schema, "meta"),
           <<Prop("npcId", npcId), Prop("name", name), Prop("classification", classification),
             Prop("firstAppearance", Now), Prop("lastSeen", Now),
             Prop("appearanceCount", JsNum(1)), Prop("createdAt", Now),
             Prop("lastUpdated", Now)>>)

\* getOrCreate, new sidecar: options.notes and options.sentiment stored in
\* npcData.  Where the classification is not 'minor' they go to trackers,
\* which only the major schema has.
NewWithOptions(npcData, classification, options) ==
    IF classification = NPC_CLASSIFICATION.MINOR
    THEN Returned(Assign(npcData,
            <<Prop("data",
                   Assign(GetProp(npcData, "data"),
                          (IF Truthy(options.notes)
                           THEN <<Prop("notes", options.notes)>> ELSE <<>>)
                          \o (IF Truthy(options.sentiment)
                              THEN <<Prop("sentiment", options.sentiment)>> ELSE <<>>)))>>))
    ELSE IF (Truthy(options.notes) \/ Truthy(options.sentiment))
            /\ IsNullish(GetProp(npcData, "trackers"))
    THEN Raised("TypeError")
    ELSE Returned(
            IF Truthy(options.sentiment)
            THEN Set2(IF Truthy(options.notes)
                      THEN Push2(npcData, "trackers", "knowledge", options.notes)
                      ELSE npcData,
                      "trackers", "relationships",
                      SetProp(Get2(npcData, "trackers", "relationships"), "mainCharacter",
                              JsObj(<<Prop("sentiment", options.sentiment),
                                      Prop("trustLevel", JsNum(50))>>)))
            ELSE IF Truthy(options.notes)
            THEN Push2(npcData, "trackers", "knowledge", options.notes)
            ELSE npcData)

\* getOrCreate, new sidecar: npcData as it is stored in the registry, for
\* classification = options.classification || 'minor'.
NewSidecar(schema, npcId, name, classification, options) ==
    NewWithOptions(SetProp(schema, "meta", NewMeta(schema, npcId, name, classification)),
                   classification, options)

NewNpc(npcId, name, classification, options) ==
    NewSidecar(IF classification = NPC_CLASSIFICATION.MAJOR
               THEN MAJOR_NPC_SCHEMA ELSE MINOR_NPC_SCHEMA,
               npcId, name, classification, options)

\* npc.meta.appearanceCount++
Incremented(count) == IF count.t = "number" THEN IncrementSum(count, JsNum(1)) ELSE JsNaN

\* getOrCreate, existing sidecar, without `npc.meta.appearanceCount++`.
SeenUncounted(npc) == Set2(npc, "meta", "lastSeen", Now)

\* getOrCreate, existing sidecar: lastSeen and appearanceCount updated.
Seen(npc) ==
    SetProp(npc, "meta",
            Assign(GetProp(npc, "meta"),
                   <<Prop("lastSeen", Now),
                     Prop("appearanceCount",
                          Incremented(Get2(npc, "meta", "appearanceCount")))>>))

\* The loop of applyOperations: each operation applied to the sidecar, a
\* throw of the engine logged and passed over.
RECURSIVE ApplyEach(_, _, _)
ApplyEachNext(rest, r) == ApplyEach(r.doc, r.history, rest)

ApplyEach(npc, engineHistory, operations) ==
    IF operations = <<>>
    THEN [doc |-> npc, history |-> engineHistory]
    ELSE ApplyEachNext(Tail(operations), Apply(npc, engineHistory, Head(operations)))

(***************************************************************************)
(* processClassifications.  A classification record is [name,              *)
(* recommendedClassification, reasoning, sentiment, updates]; updates is a *)
(* sequence of operations, empty where the record has none.  existingData  *)
(* is a reference to the sidecar object found by process: `live` while the *)
(* registry still holds that object under the id, and afterwards `snap`,   *)
(* the object as it was when the registry let go of it.                    *)
(***************************************************************************)
LiveRef == [live |-> TRUE, snap |-> JsUndefined]

Deref(ref, registry, npcId) == IF ref.live THEN NpcAt(registry, npcId) ELSE ref.snap

EmptyActions == [creates |-> <<>>, promotions |-> <<>>, demotions |-> <<>>, updates |-> <<>>]

MigrationAction(npcId, c) ==
    [npcId |-> npcId, name |-> c.name, reason |-> c.reasoning, existingData |-> LiveRef]

\* The else branch of the loop body without the test of userPinned.
ProcessIgnoringPin(acts, c, npcId, currentClass, pinned) ==
    [creates |-> acts.creates,
     promotions |->
        IF /\ currentClass = NPC_CLASSIFICATION.MINOR
           /\ c.recommendedClassification = NPC_CLASSIFICATION.MAJOR
        THEN Append(acts.promotions, MigrationAction(npcId, c))
        ELSE acts.promotions,
     demotions |->
        IF /\ currentClass = NPC_CLASSIFICATION.MAJOR
           /\ c.recommendedClassification = NPC_CLASSIFICATION.MINOR
        THEN Append(acts.demotions, MigrationAction(npcId, c))
        ELSE acts.demotions,
     updates |->
        IF Len(c.updates) > 0
        THEN Append(acts.updates, [npcId |-> npcId, name |-> c.name, operations |-> c.updates])
        ELSE acts.updates]

\* The else branch of the loop body: the sidecar exists.
ProcessExisting(acts, c, npcId, currentClass, pinned) ==
    [creates |-> acts.creates,
     promotions |->
        IF /\ currentClass # c.recommendedClassification /\ ~pinned
           /\ currentClass = NPC_CLASSIFICATION.MINOR
           /\ c.recommendedClassification = NPC_CLASSIFICATION.MAJOR
        THEN Append(acts.promotions, MigrationAction(npcId, c))
        ELSE acts.promotions,
     demotions |->
        IF /\ currentClass # c.recommendedClassification /\ ~pinned
           /\ currentClass = NPC_CLASSIFICATION.MAJOR
           /\ c.recommendedClassification = NPC_CLASSIFICATION.MINOR
        THEN Append(acts.demotions, MigrationAction(npcId, c))
        ELSE acts.demotions,
     updates |->
        IF Len(c.updates) > 0
        THEN Append(acts.updates, [npcId |-> npcId, name |-> c.name, operations |-> c.updates])
        ELSE acts.updates]

\* The then branch: a create action.
ProcessNew(acts, c) ==
    [acts EXCEPT !.creates = Append(@,
        [name |-> c.name,
         classification |-> OrElse(c.recommendedClassification, NPC_CLASSIFICATION.MINOR),
         notes |-> c.reasoning,
         sentiment |-> OrElse(c.sentiment, JsStr("Unknown")),
         updates |-> c.updates])]

\* One turn of the loop of processClassifications; existingNPC is what
\* getNPC returned.  It throws where existingNPC.meta is null or undefined.
ProcessOne(acts, c, npcId, existingNPC) ==
    IF ~Truthy(existingNPC) THEN Returned(ProcessNew(acts, c))
    ELSE IF IsNullish(GetProp(existingNPC, "meta")) THEN Raised("TypeError")
    ELSE Returned(ProcessExisting(acts, c, npcId,
                                  Get2(existingNPC, "meta", "classification"),
                                  Truthy(Get2(existingNPC, "meta", "userPinned"))))

RECURSIVE ProcessFrom(_, _, _)
ProcessRest(registry, rest, r) ==
    IF r.thrown THEN r ELSE ProcessFrom(registry, rest, r.val)

ProcessFrom(registry, classifications, acts) ==
    IF classifications = <<>> THEN Returned(acts)
    ELSE ProcessRest(registry, Tail(classifications),
                     ProcessOne(acts, Head(classifications),
                                GenerateNpcId(Head(classifications).name),
                                GetNPC(registry, GenerateNpcId(Head(classifications).name))))

\* processClassifications on an array of records
ProcessClassifications(registry, classifications) ==
    ProcessFrom(registry, classifications, EmptyActions)

(***************************************************************************)
(* NPCRegistry.save.  A timer set by save is [phase, owner]: "waiting"     *)
(* until it fires, "saving" while its callback awaits saveMetadata, and    *)
(* owner says whose await hangs on the promise save returned ("exec" for   *)
(* executeClassificationActions, "none" for a caller nothing in the model  *)
(* waits for).  saveQueue is the slot of the timer this.saveQueue holds, 0 *)
(* for null.  registry.meta (lastUpdated and the counts) is not followed.  *)
(***************************************************************************)
FreeTimer == [phase |-> "free", owner |-> "none"]

\* clearTimeout(this.saveQueue): a timer that has fired is not stopped.
ClearTimeout(tm, sq) ==
    IF sq # 0 /\ tm[sq].phase = "waiting" THEN [tm EXCEPT ![sq] = FreeTimer] ELSE tm

FreeSlot(tm) == CHOOSE t \in DOMAIN tm : tm[t].phase = "free" /\ \A u \in 1..(t - 1) : tm[u].phase # "free"

SetTimeout(tm, slot, owner) ==
    [timers |-> [tm EXCEPT ![slot] = [phase |-> "waiting", owner |-> owner]], saveQueue |-> slot]

\* save() from `if (this.saveQueue)` on: the timers and saveQueue afterwards.
Save(tm, sq, owner) == SetTimeout(ClearTimeout(tm, sq), FreeSlot(ClearTimeout(tm, sq)), owner)

\* A slot is left for the timer of one more save().
CanSave(tm, sq) == \E t \in DOMAIN tm : ClearTimeout(tm, sq)[t].phase = "free"

\* updateCounts, which save() calls first, reads n.meta.classification of
\* every sidecar: a TypeError where some n.meta is null or undefined.
CountsThrow(registry) ==
    \E id \in DOMAIN registry :
        registry[id] # JsUndefined /\ IsNullish(GetProp(registry[id], "meta"))

(***************************************************************************)
(* executeClassificationActions, one piece of synchronous code at a time.  *)
(* What a piece does is an effect: the registry and the engine's history   *)
(* afterwards, whether it threw, whether it ends in `await save()`, where  *)
(* the function goes on (`next`), the sidecar reference it holds, the id   *)
(* whose sidecar object it replaced, and a record of what it did.          *)
(***************************************************************************)
NullRef == [live |-> FALSE, snap |-> JsNull]

\* What a piece did: the function and the step, the action's name and id,
\* the classification it remapped for, the sidecar the registry held under
\* the id before, and whether the piece threw.
Log(fn, step, name, npcId, remapClass, stored) ==
    [fn |-> fn, step |-> step, name |-> name, npcId |-> npcId,
     remapClass |-> remapClass, stored |-> stored, threw |-> FALSE]

Effect(registry, engineHistory, err, await, next, ref, replaced, log) ==
    [registry |-> registry, history |-> engineHistory, thrown |-> err # "", err |-> err,
     await |-> await, next |-> next, ref |-> ref, replaced |-> replaced, log |-> log]

\* NPCRegistry.getOrCreate up to its `await this.save()`, as the create
\* loop calls it.
GetOrCreate(registry, engineHistory, a, npcId, made) ==
    CASE npcId = JsNull ->
            Effect(registry, engineHistory, "", FALSE, "created", NullRef, "",
                   Log("execute", "getOrCreate", a.name, npcId, JsUndefined, JsUndefined))
      [] HasNPC(registry, npcId) ->
            IF MetaAssignable(NpcAt(registry, npcId))
            THEN Effect([registry EXCEPT ![npcId.s] = Seen(@)], engineHistory, "", TRUE,
                        "created", LiveRef, "",
                        Log("execute", "getOrCreate", a.name, npcId, JsUndefined,
                            NpcAt(registry, npcId)))
            ELSE Effect(registry, engineHistory, "TypeError", FALSE, "", NullRef, "",
                        Log("execute", "getOrCreate", a.name, npcId, JsUndefined,
                            NpcAt(registry, npcId)))
      [] made.thrown ->
            Effect(registry, engineHistory, made.err, FALSE, "", NullRef, "",
                   Log("execute", "getOrCreate", a.name, npcId, JsUndefined, JsUndefined))
      [] OTHER ->
            Effect([registry EXCEPT ![npcId.s] = made.val], engineHistory, "", TRUE,
                   "created", LiveRef, "",
                   Log("execute", "getOrCreate", a.name, npcId, JsUndefined, JsUndefined))

\* NPCRegistry.applyOperations up to its `await this.save()`; applied is
\* the sidecar and the history after the loop.
ApplyOperationsWith(registry, npcId, applied, log) ==
    IF MetaAssignable(applied.doc)
    THEN Effect([registry EXCEPT ![npcId.s] = Set2(applied.doc, "meta", "lastUpdated", Now)],
                applied.history, "", TRUE, "end", NullRef, "", log)
    ELSE Effect([registry EXCEPT ![npcId.s] = applied.doc], applied.history, "TypeError",
                FALSE, "", NullRef, "", log)

ApplyOperations(registry, engineHistory, npcId, operations, log) ==
    IF ~HasNPC(registry, npcId) \/ Len(operations) = 0
    THEN Effect(registry, engineHistory, "", FALSE, "finish", NullRef, "", log)
    ELSE ApplyOperationsWith(registry, npcId,
                             ApplyEach(NpcAt(registry, npcId), engineHistory, operations), log)

\* The create loop after getOrCreate returned npc: remapped is the outcome
\* of remapOperationsForClassification(updates, createAction.classification).
CreateUpdates(registry, engineHistory, a, npc, remapped) ==
    CASE Len(a.updates) = 0 ->
            Effect(registry, engineHistory, "", FALSE, "finish", NullRef, "",
                   Log("execute", "push", a.name, JsUndefined, JsUndefined, JsUndefined))
      [] remapped.thrown \/ IsNullish(npc) \/ IsNullish(GetProp(npc, "meta")) ->
            Effect(registry, engineHistory, "TypeError", FALSE, "", NullRef, "",
                   Log("execute", "remap", a.name, JsUndefined, a.classification, JsUndefined))
      [] OTHER ->
            ApplyOperations(registry, engineHistory, Get2(npc, "meta", "npcId"), remapped.ops,
                            Log("execute", "applyCreate", a.name, Get2(npc, "meta", "npcId"),
                                a.classification,
                                NpcAt(registry, Get2(npc, "meta", "npcId"))))

\* A demotion loop that lets go of the major sidecar and stores nothing in
\* its place.
MigrateDropping(registry, engineHistory, a, step, migrated) ==
    IF migrated.thrown
    THEN Effect(registry, engineHistory, migrated.err, FALSE, "", NullRef, "",
                Log("execute", "throw", a.name, a.npcId, JsUndefined, NpcAt(registry, a.npcId)))
    ELSE Effect([registry EXCEPT ![a.npcId.s] =
                    IF step = "demote" THEN JsUndefined ELSE migrated.val],
                engineHistory, "", TRUE, "end", NullRef, a.npcId.s,
                Log("execute", step, a.name, a.npcId, JsUndefined, NpcAt(registry, a.npcId)))

\* The migration loops with replaceNPC moved in front of the transform's
\* end: a throw leaves the schema clone it had begun to fill in the registry.
MigrateInPlace(registry, engineHistory, a, step, migrated) ==
    IF migrated.thrown
    THEN Effect([registry EXCEPT ![a.npcId.s] =
                    IF step = "promote" THEN MAJOR_NPC_SCHEMA ELSE MINOR_NPC_SCHEMA],
                engineHistory, migrated.err, FALSE, "", NullRef, a.npcId.s,
                Log("execute", "throw", a.name, a.npcId, JsUndefined, NpcAt(registry, a.npcId)))
    ELSE Effect([registry EXCEPT ![a.npcId.s] = migrated.val], engineHistory, "", TRUE, "end",
                NullRef, a.npcId.s,
                Log("execute", step, a.name, a.npcId, JsUndefined, NpcAt(registry, a.npcId)))

\* The promotion and the demotion loop: migrated is what migrateToMajor or
\* migrateToMinor made of existingData; replaceNPC up to its save().
Migrate(registry, engineHistory, a, step, migrated) ==
    IF migrated.thrown
    THEN Effect(registry, engineHistory, migrated.err, FALSE, "", NullRef, "",
                Log("execute", "throw", a.name, a.npcId, JsUndefined, NpcAt(registry, a.npcId)))
    ELSE Effect([registry EXCEPT ![a.npcId.s] = migrated.val], engineHistory, "", TRUE, "end",
                NullRef, a.npcId.s,
                Log("execute", step, a.name, a.npcId, JsUndefined, NpcAt(registry, a.npcId)))

\* The update loop: npc is what getNPC returned.
Update(registry, engineHistory, a, npc) ==
    CASE ~Truthy(npc) ->
            Effect(registry, engineHistory, "", FALSE, "skip", NullRef, "",
                   Log("execute", "skip", a.name, a.npcId, JsUndefined, JsUndefined))
      [] IsNullish(GetProp(npc, "meta"))
         \/ RemapOperationsForClassification(a.operations,
                                             Get2(npc, "meta", "classification")).thrown ->
            Effect(registry, engineHistory, "TypeError", FALSE, "", NullRef, "",
                   Log("execute", "remap", a.name, a.npcId, JsUndefined, npc))
      [] OTHER ->
            ApplyOperations(registry, engineHistory, a.npcId,
                            RemapOperationsForClassification(
                                a.operations, Get2(npc, "meta", "classification")).ops,
                            Log("execute", "applyUpdate", a.name, a.npcId,
                                Get2(npc, "meta", "classification"), npc))

(***************************************************************************)
(* The state.                                                              *)
(***************************************************************************)
VARIABLES
    doc,        \* the document handed to the engine
    history,    \* DeltaEngine.history
    call,       \* the call made: its name, its input, the document before, its outcome
    npcs,       \* NPCRegistry.registry.npcs: the sidecar under each id, or undefined
    timers,     \* the timers set by NPCRegistry.save
    saveQueue,  \* NPCRegistry.saveQueue
    actions,    \* the actions processClassifications returned
    exec,       \* where executeClassificationActions is, and its results
    userCalls,  \* how many calls the user has made
    mentioned,  \* NPCRegistry.registry.sceneContext.recentlyMentioned
    callers,    \* the calls of getOrCreate under way: name and position
    parked,     \* a second run of the batch processor: its actions and where it is
    settings,   \* extensionSettings of the extension
    activeNPCs, \* NPCRegistry.registry.sceneContext.activeNPCs
    chatId,     \* the chat that is open: getContext() is the context of this chat
    chatMetadata, \* chatMetadata['sidecar_npc_registry'] of each chat: the registry object
    cached,     \* NPCRegistry.registry: the registry object it holds, or null
    analyses    \* the runs of onMessageReceived that wait for analyzeChanges

\* What the host and the message handler hold beside the registry.
sessionVars == <<chatId, chatMetadata, cached, analyses>>

vars ==
    <<doc, history, call, npcs, timers, saveQueue, actions, exec, userCalls,
      mentioned, callers, parked, settings, activeNPCs, sessionVars>>

registryVars ==
    <<npcs, timers, saveQueue, actions, exec, userCalls, mentioned, callers, parked, settings,
      activeNPCs, sessionVars>>

\* defaultSettings: the settings of the automatic analysis and of NPC
\* tracking.
defaultSettings ==
    [enabled |-> JsBool(TRUE), autoUpdate |-> JsBool(TRUE), updateFrequency |-> JsNum(1),
     messageCounter |-> JsNum(0),
     npcEnabled |-> JsBool(TRUE), npcAutoClassify |-> JsBool(TRUE), npcMaxMajor |-> JsNum(5),
     npcPromotionThreshold |-> JsNum(3)]

\* The chats of the model, and the registry objects: the one stored with
\* each chat before, and the one create() makes while each chat is open.
ChatIds == {"a", "b"}

StoredIn(c) == "stored_" \o c

CreatedIn(c) == "created_" \o c

NoData == "undefined"

NoRegistry == "null"

\* After init() in chat "a", which had a registry stored: load() found it
\* and holds it. No scene was set and no analysis is under way.
HostInit ==
    /\ activeNPCs = <<>>
    /\ chatId = "a"
    /\ chatMetadata = [c \in ChatIds |-> IF c = "a" THEN StoredIn("a") ELSE NoData]
    /\ cached = StoredIn("a")
    /\ analyses = 0

(***************************************************************************)
(* The engine on its own: one document, one call of apply or applyBatch.   *)
(***************************************************************************)

MaxBatchLen == 3

NoCall == [fn |-> "none"]

\* {a: ["x", {k: "x"}], n: 7, s: "hi", o: {k: "x"}}
DocSample ==
    JsObj(<<Prop("a", JsArr(<<JsStr("x"), JsObj(<<Prop("k", JsStr("x"))>>)>>)),
            Prop("n", JsNum(7)),
            Prop("s", JsStr("hi")),
            Prop("o", JsObj(<<Prop("k", JsStr("x"))>>))>>)

EngineDocs == {JsObj(<<>>), DocSample}

\* Operations apply accepts and carries out.
EngineGoodOps ==
    {Operation(JsStr("set"), JsStr("a.b"), JsStr("x")),
     Operation(JsStr("set"), JsStr("c[1].d"), JsNum(1)),
     Operation(JsStr("add"), JsStr("a"), JsStr("x")),
     Operation(JsStr("append"), JsStr("a"), JsStr("x")),
     Operation(JsStr("remove"), JsStr("a"), JsObj(<<Prop("k", JsStr("x"))>>)),
     Operation(JsStr("increment"), JsStr("n"), JsStr("-10")),
     Operation(JsStr("delete"), JsStr("o.k"), JsUndefined)}

\* add with a number and with an object as the value.
EngineAddOps ==
    {Operation(JsStr("add"), JsStr("n"), JsNum(7)),
     Operation(JsStr("add"), JsStr("a"), JsObj(<<Prop("k", JsStr("x"))>>)),
     Operation(JsStr("add"), JsStr("s"), JsObj(<<>>))}

\* remove at a path that holds a number, a string, an object or nothing (a
\* key of a string), with a string, a number, an object, null and no value.
EngineRemoveOps ==
    {Operation(JsStr("remove"), JsStr("n"), JsNum(7)),
     Operation(JsStr("remove"), JsStr("s"), JsStr("hi")),
     Operation(JsStr("remove"), JsStr("o"), JsObj(<<Prop("k", JsStr("x"))>>)),
     Operation(JsStr("remove"), JsStr("o.k"), JsNull),
     Operation(JsStr("remove"), JsStr("s.b"), JsUndefined)}

\* increment with a value parseFloat makes nothing of.
EngineUnparsableOps ==
    {Operation(JsStr("increment"), JsStr("n"), JsStr("abc")),
     Operation(JsStr("increment"), JsStr("s"), JsStr("abc")),
     Operation(JsStr("increment"), JsStr("o"), JsStr("abc")),
     Operation(JsStr("increment"), JsStr("a.b"), JsObj(<<>>))}

\* Operations that pass validation and fail later: a path through a string,
\* a path with no key in it, a path that is neither a string nor an array.
EngineFailingOps ==
    {Operation(JsStr("set"), JsStr("s.b"), JsStr("x")),
     Operation(JsStr("set"), JsStr("."), JsStr("x")),
     Operation(JsStr("add"), JsNum(5), JsStr("x"))}

\* Operations validation rejects: null, no op, an op that is none of the
\* six, no path (absent or empty).
EngineInvalidOps ==
    {NullOperation,
     Operation(JsUndefined, JsStr("a"), JsStr("x")),
     Operation(JsStr("replace"), JsStr("a"), JsStr("x")),
     Operation(JsStr("SET"), JsStr("n"), JsNum(1)),
     Operation(JsStr("set"), JsUndefined, JsStr("x")),
     Operation(JsStr("remove"), JsStr(""), JsStr("x")),
     Operation(JsStr("delete"), JsStr(""), JsUndefined),
     Operation(JsStr("add"), JsStr(""), JsStr("x")),
     Operation(JsUndefined, JsUndefined, JsUndefined)}

\* Operations of the five kinds that take a value, without one.
EngineValuelessOps ==
    {Operation(JsStr("set"), JsStr("n"), JsUndefined),
     Operation(JsStr("add"), JsStr("a"), JsUndefined),
     Operation(JsStr("remove"), JsStr("a"), JsUndefined),
     Operation(JsStr("append"), JsStr("a"), JsUndefined),
     Operation(JsStr("increment"), JsStr("n"), JsUndefined)}

\* Operations of each kind on a path of dots alone, which has no key.
EngineEmptyPathOps ==
    {Operation(JsStr("set"), JsStr(".."), JsStr("x")),
     Operation(JsStr("add"), JsStr(".."), JsStr("x")),
     Operation(JsStr("remove"), JsStr("."), JsStr("x")),
     Operation(JsStr("append"), JsStr("."), JsStr("x")),
     Operation(JsStr("increment"), JsStr(".."), JsNum(1)),
     Operation(JsStr("delete"), JsStr("."), JsUndefined)}

EngineOps ==
    EngineGoodOps \cup EngineAddOps \cup EngineRemoveOps \cup EngineUnparsableOps
        \cup EngineFailingOps \cup EngineInvalidOps \cup EngineValuelessOps
        \cup EngineEmptyPathOps

\* The operations the batches of the model are made of.
BatchOps ==
    {Operation(JsStr("set"), JsStr("a.b"), JsStr("x")),
     Operation(JsStr("add"), JsStr("a"), JsStr("x")),
     Operation(JsStr("increment"), JsStr("n"), JsStr("-10")),
     Operation(JsStr("set"), JsStr("s.b"), JsStr("x")),
     NullOperation,
     Operation(JsStr("replace"), JsStr("a"), JsStr("x")),
     Operation(JsStr("remove"), JsStr(""), JsStr("x")),
     Operation(JsStr("append"), JsStr("a"), JsUndefined),
     Operation(JsStr("append"), JsStr("a"), JsStr("y"))}

SeqsUpTo(S, n) == UNION {[1..k -> S] : k \in 0..n}

EngineInit ==
    /\ doc \in EngineDocs
    /\ history = <<>>
    /\ call = NoCall
    /\ npcs = <<>>
    /\ timers = <<>>
    /\ saveQueue = 0
    /\ actions = <<>>
    /\ exec = <<>>
    /\ userCalls = 0
    /\ mentioned = <<>>
    /\ callers = <<>>
    /\ parked = <<>>
    /\ settings = defaultSettings
    /\ HostInit

EngineApplied(operation, r) ==
    /\ doc' = r.doc
    /\ history' = r.history
    /\ call' = [fn |-> "apply", operation |-> operation, before |-> doc,
                historyBefore |-> history, thrown |-> r.thrown, err |-> r.err,
                prev |-> call]

\* engine.apply(doc, operation), as the first call or as the one after it
EngineApply(operation) ==
    /\ call = NoCall \/ (call.fn = "apply" /\ call.prev = NoCall)
    /\ EngineApplied(operation, Apply(doc, history, operation))
    /\ UNCHANGED registryVars

EngineBatched(operations, r) ==
    /\ doc' = r.doc
    /\ history' = r.history
    /\ call' = [fn |-> "applyBatch", operations |-> operations, before |-> doc,
                historyBefore |-> history, results |-> r.results]

\* engine.applyBatch(doc, operations)
EngineApplyBatch(operations) ==
    /\ call = NoCall
    /\ EngineBatched(operations, ApplyBatch(doc, history, operations))
    /\ UNCHANGED registryVars

\* engine.preview(doc, operation)
EnginePreview(operation) ==
    /\ call = NoCall
    /\ call' = [fn |-> "preview", operation |-> operation, before |-> doc,
                returned |-> Preview(doc, operation)]
    /\ UNCHANGED <<doc, history>>
    /\ UNCHANGED registryVars

EnginePreviewed(operations, r) ==
    /\ history' = r.history
    /\ call' = [fn |-> "previewBatch", operations |-> operations, before |-> doc,
                thrown |-> r.thrown, previews |-> r.previews]
    /\ UNCHANGED doc

\* engine.previewBatch(doc, operations)
EnginePreviewBatch(operations) ==
    /\ call = NoCall
    /\ EnginePreviewed(operations, PreviewBatch(doc, history, operations))
    /\ UNCHANGED registryVars

EngineNext ==
    \/ \E operation \in EngineOps : EngineApply(operation)
    \/ \E operations \in SeqsUpTo(BatchOps, MaxBatchLen) : EngineApplyBatch(operations)
    \/ \E operation \in EngineOps : EnginePreview(operation)
    \/ \E operations \in SeqsUpTo(BatchOps, MaxBatchLen) : EnginePreviewBatch(operations)

SpecEngine == EngineInit /\ [][EngineNext]_vars


(***************************************************************************)
(* The registry with one run of the batch processor (process, then         *)
(* execute) and the user's calls of togglePin, promoteNPC, demoteNPC and   *)
(* deleteNPC.  JavaScript runs one piece of synchronous code at a time:    *)
(* while execute is at "run" nothing else moves, and the others move only  *)
(* while it awaits the promise of a save().                                *)
(***************************************************************************)
\* The calls of the user (togglePin, promoteNPC, demoteNPC, deleteNPC) a
\* behaviour holds.
MaxUserCalls == 1

\* The timers that can be alive at once: each caller of save() has at most
\* one timer that has fired and not finished, execute included.
MaxTimers == MaxUserCalls + 1

\* The lists gone through with the updates before the migrations.
PhaseOrderUpdatesFirst == <<"creates", "updates", "promotions", "demotions">>

\* The order in which executeClassificationActions goes through the lists.
PhaseOrder == <<"creates", "promotions", "demotions", "updates">>

EmptyResults ==
    [created |-> <<>>, promoted |-> <<>>, demoted |-> <<>>, updated |-> <<>>, errors |-> <<>>]

IdleExec ==
    [st |-> "idle", ph |-> 1, i |-> 1, stage |-> "begin", npc |-> NullRef,
     results |-> EmptyResults]

NoActions == [from |-> "none", lists |-> EmptyActions]

\* A run of the batch processor that has not been given anything yet.
NoBatch == [exec |-> IdleExec, actions |-> NoActions]

\* The list the loop is in, and the action it is at.
PhaseName(x) == PhaseOrder[x.ph]

CurrentAction(x) == actions.lists[PhaseName(x)][x.i]

\* The next action from position i of list ph on; ph is 5 past the last.
RECURSIVE Seek(_, _, _)
Seek(lists, ph, i) ==
    IF ph > Len(PhaseOrder) THEN [ph |-> ph, i |-> 1]
    ELSE IF i <= Len(lists[PhaseOrder[ph]]) THEN [ph |-> ph, i |-> i]
    ELSE Seek(lists, ph + 1, 1)

\* The loop goes on to the next action, or the function returns results.
GoOn(x, results, at) ==
    [st |-> IF at.ph > Len(PhaseOrder) THEN "done" ELSE "run", ph |-> at.ph, i |-> at.i,
     stage |-> "begin", npc |-> NullRef, results |-> results]

Advance(x, results) == GoOn(x, results, Seek(actions.lists, x.ph, x.i + 1))

\* results.<list>.push(name) at the end of a try block.
Succeed(results, phase, name) ==
    CASE phase = "creates" -> [results EXCEPT !.created = Append(@, name)]
      [] phase = "promotions" -> [results EXCEPT !.promoted = Append(@, name)]
      [] phase = "demotions" -> [results EXCEPT !.demoted = Append(@, name)]
      [] phase = "updates" -> [results EXCEPT !.updated = Append(@, name)]

ActionWord(phase) ==
    CASE phase = "creates" -> "create"
      [] phase = "promotions" -> "promote"
      [] phase = "demotions" -> "demote"
      [] phase = "updates" -> "update"

\* A loop body without its try and catch: the error leaves the function.
Uncaught(x, err) == [x EXCEPT !.st = "threw"]

\* The catch block of a loop body.
Catch(x, err) ==
    Advance(x, [x.results EXCEPT !.errors =
                    Append(@, [action |-> ActionWord(PhaseName(x)),
                               name |-> CurrentAction(x).name, error |-> err])])

\* Every reference to the sidecar object the registry held under the id
\* `replaced` now holds the object as it was.
Detach(ref, npcId, replaced, old) ==
    IF ref.live /\ npcId = JsStr(replaced) THEN [live |-> FALSE, snap |-> old] ELSE ref

DetachIn(list, replaced, old) ==
    [k \in 1..Len(list) |->
        [list[k] EXCEPT !.existingData = Detach(@, list[k].npcId, replaced, old)]]

DetachAll(acts, replaced, old) ==
    IF replaced = "" THEN acts
    ELSE [acts EXCEPT !.lists.promotions = DetachIn(@, replaced, old),
                      !.lists.demotions = DetachIn(@, replaced, old)]

\* The reference getOrCreate returned to the create loop, likewise.
DetachNpc(x, replaced, old) ==
    IF replaced # "" /\ x.npc.live
    THEN [x EXCEPT !.npc = Detach(@, GenerateNpcId(CurrentAction(x).name), replaced, old)]
    ELSE x

\* The references the run that is not at work holds, likewise.
DetachParked(p, replaced, old) ==
    IF replaced = "" THEN p
    ELSE [exec |-> IF p.exec.npc.live
                   THEN [p.exec EXCEPT !.npc =
                            Detach(@, GenerateNpcId(
                                          p.actions.lists[PhaseName(p.exec)][p.exec.i].name),
                                   replaced, old)]
                   ELSE p.exec,
          actions |-> DetachAll(p.actions, replaced, old)]

\* The piece of executeClassificationActions at the position of x, for
\* the action a, on a registry and an engine history.
PieceOn(registry, engineHistory, x, a) ==
    CASE x.stage = "end" ->
            Effect(registry, engineHistory, "", FALSE, "finish", NullRef, "",
                   Log("execute", "push", a.name, JsUndefined, JsUndefined, JsUndefined))
      [] PhaseName(x) = "creates" /\ x.stage = "begin" ->
            GetOrCreate(registry, engineHistory, a, GenerateNpcId(a.name),
                        NewNpc(GenerateNpcId(a.name), a.name, a.classification,
                               [notes |-> a.notes, sentiment |-> a.sentiment]))
      [] PhaseName(x) = "creates" /\ x.stage = "created" ->
            CreateUpdates(registry, engineHistory, a,
                          Deref(x.npc, registry, GenerateNpcId(a.name)),
                          RemapOperationsForClassification(a.updates, a.classification))
      [] PhaseName(x) = "promotions" ->
            Migrate(registry, engineHistory, a, "promote",
                    MigrateToMajor(Deref(a.existingData, registry, a.npcId), a.reason))
      [] PhaseName(x) = "demotions" ->
            Migrate(registry, engineHistory, a, "demote",
                    MigrateToMinor(Deref(a.existingData, registry, a.npcId), a.reason))
      [] PhaseName(x) = "updates" ->
            Update(registry, engineHistory, a, GetNPC(registry, a.npcId))

Piece(x, a) == PieceOn(npcs, history, x, a)

\* executeClassificationActions after a piece with effect o: caught by the
\* catch block, suspended in `await save()`, or gone on.
Continue(x, o) ==
    CASE o.thrown \/ (o.await /\ CountsThrow(o.registry)) ->
            Catch(x, IF o.thrown THEN o.err ELSE "TypeError")
      [] o.await -> [x EXCEPT !.st = "await", !.stage = o.next, !.npc = o.ref]
      [] o.next = "finish" ->
            Advance(x, Succeed(x.results, PhaseName(x), CurrentAction(x).name))
      [] o.next = "skip" -> Advance(x, x.results)
      [] OTHER -> [x EXCEPT !.stage = o.next, !.npc = o.ref]

Saved(o, owner) ==
    IF o.await /\ ~o.thrown /\ ~CountsThrow(o.registry)
    THEN Save(timers, saveQueue, owner)
    ELSE [timers |-> timers, saveQueue |-> saveQueue]

Effected(o, owner, x) ==
    /\ npcs' = o.registry
    /\ history' = o.history
    /\ timers' = Saved(o, owner).timers
    /\ saveQueue' = Saved(o, owner).saveQueue
    /\ actions' = DetachAll(actions, o.replaced, NpcAt(npcs, JsStr(o.replaced)))
    /\ exec' = DetachNpc(x, o.replaced, NpcAt(npcs, JsStr(o.replaced)))
    /\ call' = [o.log EXCEPT !.threw = o.thrown \/ (o.await /\ CountsThrow(o.registry))]
    /\ parked' = DetachParked(parked, o.replaced, NpcAt(npcs, JsStr(o.replaced)))
    /\ UNCHANGED <<doc, callers, settings, sessionVars>>

ExecDone(o) == Effected(o, "exec", Continue(exec, o))

\* One piece of executeClassificationActions runs.
ExecStep ==
    /\ exec.st = "run"
    /\ exec.ph <= Len(PhaseOrder)
    /\ ExecDone(Piece(exec, CurrentAction(exec)))
    /\ UNCHANGED <<userCalls, mentioned, activeNPCs>>

\* executeClassificationActions(npcRegistry, actions) is called.
Execute ==
    /\ exec.st = "idle"
    /\ actions.from = "process"
    /\ exec' = GoOn(exec, EmptyResults, Seek(actions.lists, 1, 1))
    /\ call' = Log("execute", "call", JsUndefined, JsUndefined, JsUndefined, JsUndefined)
    /\ UNCHANGED <<doc, history, npcs, timers, saveQueue, actions, userCalls, mentioned, activeNPCs,
                   callers, parked, settings, sessionVars>>

Processed(classifications, r) ==
    /\ actions' = IF r.thrown THEN actions ELSE [from |-> "process", lists |-> r.val]
    /\ call' = [fn |-> "process", classifications |-> classifications, thrown |-> r.thrown]
    /\ UNCHANGED <<doc, history, npcs, timers, saveQueue, exec, userCalls, mentioned,
                   activeNPCs, callers, parked, settings, chatId, chatMetadata, cached>>

\* processClassifications(npcRegistry, classifications) is called.
Process(classifications) ==
    /\ exec.st = "idle"
    /\ actions.from = "none"
    /\ Processed(classifications, ProcessClassifications(npcs, classifications))
    /\ UNCHANGED analyses

\* A continuation of a run of the batch processor is ready: it runs before
\* any timer fires and before the user can do anything.
Runnable == exec.st = "run" \/ parked.exec.st = "run"

\* The timer of a save() fires: its callback stores this.registry in the
\* chatMetadata of the context it gets, which is that of the chat open now,
\* and runs up to `await saveMetadata()`.
TimerFire(t) ==
    /\ ~Runnable
    /\ timers[t].phase = "waiting"
    /\ timers' = [timers EXCEPT ![t].phase = "saving"]
    /\ chatMetadata' = [chatMetadata EXCEPT ![chatId] = cached]
    /\ call' = Log("save", "fire", JsUndefined, JsUndefined, JsUndefined, JsUndefined)
    /\ UNCHANGED <<doc, history, npcs, saveQueue, actions, exec, userCalls, mentioned,
                   activeNPCs, callers, parked, settings, chatId, cached, analyses>>

\* saveMetadata() settles: the callback sets saveQueue to null if it
\* succeeded, and resolves the promise of its save() either way.
TimerDone(t, ok) ==
    /\ ~Runnable
    /\ timers[t].phase = "saving"
    /\ timers' = [timers EXCEPT ![t] = FreeTimer]
    /\ saveQueue' = IF ok THEN 0 ELSE saveQueue
    /\ exec' = IF timers[t].owner = "exec" THEN [exec EXCEPT !.st = "run"] ELSE exec
    /\ parked' = IF timers[t].owner = "parked" THEN [parked EXCEPT !.exec.st = "run"]
                 ELSE parked
    /\ callers' = [c \in DOMAIN callers |->
                      IF timers[t].owner = c THEN [callers[c] EXCEPT !.st = "returned"]
                      ELSE callers[c]]
    /\ call' = Log("save", "done", JsUndefined, JsUndefined, JsUndefined, JsUndefined)
    /\ UNCHANGED <<doc, history, npcs, actions, userCalls, mentioned, activeNPCs, settings,
                   sessionVars>>

\* A call of the user's is made while nothing runs.
UserCallWithin(o, max) ==
    /\ ~Runnable
    /\ userCalls < max
    /\ CanSave(timers, saveQueue)
    /\ userCalls' = userCalls + 1
    /\ Effected(o, "none", exec)

UserCall(o) == UserCallWithin(o, MaxUserCalls)

\* The other of two runs of the batch processor comes to the fore: it is
\* called, or its continuation is taken up. The timers follow their owners.
SwitchedOwner(owner) ==
    CASE owner = "exec" -> "parked"
      [] owner = "parked" -> "exec"
      [] OTHER -> owner

Switch ==
    /\ exec.st # "run"
    /\ exec.st # "idle" \/ actions.from # "none"
    /\ parked.exec.st \in {"idle", "run"}
    /\ exec' = parked.exec
    /\ actions' = parked.actions
    /\ parked' = [exec |-> exec, actions |-> actions]
    /\ timers' = [t \in DOMAIN timers |-> [timers[t] EXCEPT !.owner = SwitchedOwner(@)]]
    /\ call' = [fn |-> "switch"]
    /\ UNCHANGED <<doc, history, npcs, saveQueue, userCalls, mentioned, activeNPCs, callers,
                   settings, sessionVars>>

\* NPCRegistry.togglePin
TogglePin(npcId) ==
    /\ HasNPC(npcs, npcId)
    /\ UserCall(
        IF MetaAssignable(NpcAt(npcs, npcId))
        THEN Effect([npcs EXCEPT ![npcId.s] =
                        Set2(@, "meta", "userPinned",
                             JsBool(~Truthy(Get2(@, "meta", "userPinned"))))],
                    history, "", TRUE, "", NullRef, "",
                    Log("togglePin", "", JsUndefined, npcId, JsUndefined, NpcAt(npcs, npcId)))
        ELSE Effect(npcs, history, "TypeError", FALSE, "", NullRef, "",
                    Log("togglePin", "", JsUndefined, npcId, JsUndefined, NpcAt(npcs, npcId))))
    /\ UNCHANGED <<mentioned, activeNPCs>>

\* promoteNPC and demoteNPC once getNPC found npc: `target` is the
\* classification that needs no migration, migrated what the migration
\* made of npc (a throw of which is caught and logged).
ManualMigration(npcId, npc, fn, target, migrated) ==
    CASE IsNullish(GetProp(npc, "meta")) ->
            Effect(npcs, history, "TypeError", FALSE, "", NullRef, "",
                   Log(fn, "", JsUndefined, npcId, JsUndefined, npc))
      [] Get2(npc, "meta", "classification") = target ->
            Effect(npcs, history, "", FALSE, "", NullRef, "",
                   Log(fn, "same", JsUndefined, npcId, JsUndefined, npc))
      [] migrated.thrown ->
            Effect(npcs, history, "", FALSE, "", NullRef, "",
                   Log(fn, "null", JsUndefined, npcId, JsUndefined, npc))
      [] OTHER ->
            Effect([npcs EXCEPT ![npcId.s] = migrated.val], history, "", TRUE, "", NullRef,
                   npcId.s, Log(fn, "replaceNPC", JsUndefined, npcId, JsUndefined, npc))

\* promoteNPC(npcRegistry, npcId)
PromoteNPC(npcId) ==
    /\ HasNPC(npcs, npcId)
    /\ UserCall(ManualMigration(npcId, NpcAt(npcs, npcId), "promoteNPC",
                                NPC_CLASSIFICATION.MAJOR,
                                MigrateToMajor(NpcAt(npcs, npcId),
                                               JsStr("Manual promotion by user"))))
    /\ UNCHANGED <<mentioned, activeNPCs>>

\* demoteNPC(npcRegistry, npcId)
DemoteNPC(npcId) ==
    /\ HasNPC(npcs, npcId)
    /\ UserCall(ManualMigration(npcId, NpcAt(npcs, npcId), "demoteNPC",
                                NPC_CLASSIFICATION.MINOR,
                                MigrateToMinor(NpcAt(npcs, npcId),
                                               JsStr("Manual demotion by user"))))
    /\ UNCHANGED <<mentioned, activeNPCs>>

\* NPCRegistry.deleteNPC
DeleteNPC(npcId) ==
    /\ HasNPC(npcs, npcId)
    /\ UserCall(Effect([npcs EXCEPT ![npcId.s] = JsUndefined], history, "", TRUE, "",
                       NullRef, npcId.s,
                       Log("deleteNPC", "", JsUndefined, npcId, JsUndefined,
                           NpcAt(npcs, npcId))))
    /\ activeNPCs' = SelectSeq(activeNPCs, LAMBDA id : id # npcId)
    /\ mentioned' = SelectSeq(mentioned, LAMBDA id : id # npcId)

\* What setClassification returns where a change is due.
Intent(npc, classification, reason) ==
    JsObj(<<Prop("npc", npc),
            Prop("currentClassification", Get2(npc, "meta", "classification")),
            Prop("targetClassification", classification),
            Prop("reason", reason)>>)

\* NPCRegistry.setClassification: what it returns or throws.
SetClassification(registry, npcId, classification, reason) ==
    CASE ~HasNPC(registry, npcId) -> Returned(JsNull)
      [] IsNullish(GetProp(GetNPC(registry, npcId), "meta")) -> Raised("TypeError")
      [] Get2(GetNPC(registry, npcId), "meta", "classification") = classification ->
            Returned(GetNPC(registry, npcId))
      [] Truthy(Get2(GetNPC(registry, npcId), "meta", "userPinned")) ->
            Returned(GetNPC(registry, npcId))
      [] OTHER -> Returned(Intent(GetNPC(registry, npcId), classification, reason))

\* setClassification(npcId, classification, reason) is called: it has no
\* await, and the call is logged with the registry as it was.
RequestClassification(npcId, classification, reason) ==
    /\ ~Runnable
    /\ call' = [fn |-> "setClassification", npcId |-> npcId, target |-> classification,
                reason |-> reason, before |-> npcs,
                returned |-> SetClassification(npcs, npcId, classification, reason)]
    /\ UNCHANGED <<doc, history, npcs, timers, saveQueue, actions, exec, userCalls, mentioned,
                   activeNPCs, callers, parked, settings, sessionVars>>

(***************************************************************************)
(* The inputs of the registry specification.                               *)
(***************************************************************************)
MaxRecords == 2

NpcIds == {"npc_tom", "npc_ann"}

NoNpcs == [id \in NpcIds |-> JsUndefined]

\* Update operations the analyzer sends: one that either payload takes
\* after remapping, one on a path only the major payload has, and three
\* malformed ones (no kind, no path, an unknown kind).
OpNotes == Operation(JsStr("set"), JsStr("data.notes"), JsStr("x"))

OpTimeline == Operation(JsStr("append"), JsStr("timeline"), JsStr("x"))

OpNoKind == Operation(JsUndefined, JsStr("data.notes"), JsStr("x"))

OpNoPath == Operation(JsStr("set"), JsUndefined, JsStr("x"))

OpUnknownKind == Operation(JsStr("replace"), JsStr("data.notes"), JsStr("x"))

Record(name, recommended, updates) ==
    [name |-> JsStr(name), recommendedClassification |-> recommended,
     reasoning |-> JsStr("why"), sentiment |-> JsUndefined, updates |-> updates]

Records ==
    {Record("Tom", NPC_CLASSIFICATION.MAJOR, <<OpNotes>>),
     Record("Tom", NPC_CLASSIFICATION.MINOR, <<OpNoKind>>),
     Record("Tom", NPC_CLASSIFICATION.MINOR, <<OpNoPath>>),
     Record("tom", NPC_CLASSIFICATION.MAJOR, <<OpNotes>>),
     Record("Ann", NPC_CLASSIFICATION.MINOR, <<OpTimeline>>),
     Record("Ann", NPC_CLASSIFICATION.MAJOR, <<OpUnknownKind>>),
     Record("Ann", NPC_CLASSIFICATION.MINOR, <<>>),
     Record("", NPC_CLASSIFICATION.MINOR, <<OpNotes>>)}

\* Sidecars as getOrCreate makes them, and as togglePin pins them.
TomMinor ==
    NewNpc(JsStr("npc_tom"), JsStr("Tom"), NPC_CLASSIFICATION.MINOR,
           [notes |-> JsStr("a guard"), sentiment |-> JsStr("Friendly")]).val

AnnMajor ==
    NewNpc(JsStr("npc_ann"), JsStr("Ann"), NPC_CLASSIFICATION.MAJOR,
           [notes |-> JsStr("a smith"), sentiment |-> JsStr("Hostile")]).val

Pinned(npc) == Set2(npc, "meta", "userPinned", JsBool(TRUE))

\* Sidecars as an earlier batch of updates left them: a minor one whose
\* sentiment was set to a number, a major one whose timeline ends in null.
TomNumberSentiment ==
    Apply(TomMinor, <<>>,
          Operation(JsStr("set"), JsStr("data.sentiment"), JsNum(5))).doc

AnnNullEvent ==
    Apply(AnnMajor, <<>>, Operation(JsStr("append"), JsStr("timeline"), JsNull)).doc

Registries ==
    {NoNpcs,
     [NoNpcs EXCEPT !["npc_tom"] = TomMinor, !["npc_ann"] = AnnMajor],
     [NoNpcs EXCEPT !["npc_tom"] = Pinned(TomMinor), !["npc_ann"] = Pinned(AnnMajor)],
     [NoNpcs EXCEPT !["npc_tom"] = TomNumberSentiment, !["npc_ann"] = AnnNullEvent]}

RegistryInit ==
    /\ doc = JsUndefined
    /\ history = <<>>
    /\ call = NoCall
    /\ npcs \in Registries
    /\ timers = [t \in 1..MaxTimers |-> FreeTimer]
    /\ saveQueue = 0
    /\ actions = NoActions
    /\ exec = IdleExec
    /\ userCalls = 0
    /\ mentioned = <<>>
    /\ callers = <<>>
    /\ parked = NoBatch
    /\ settings = defaultSettings
    /\ HostInit

RegistryNext ==
    \/ \E classifications \in SeqsUpTo(Records, MaxRecords) : Process(classifications)
    \/ Execute
    \/ ExecStep
    \/ \E t \in 1..MaxTimers : TimerFire(t)
    \/ \E t \in 1..MaxTimers, ok \in BOOLEAN : TimerDone(t, ok)
    \/ \E id \in NpcIds : TogglePin(JsStr(id))
    \/ \E id \in NpcIds : PromoteNPC(JsStr(id))
    \/ \E id \in NpcIds : DemoteNPC(JsStr(id))
    \/ \E id \in NpcIds : DeleteNPC(JsStr(id))

SpecRegistry == RegistryInit /\ [][RegistryNext]_vars

\* The event loop at work: a timer that was set and not cleared fires,
\* saveMetadata() settles, and a continuation that can run does run.
\* ExecStep is enabled exactly while exec.st = "run" and a batch has
\* finitely many pieces, so its weak fairness is that exec.st is again and
\* again not "run". Nothing makes the user call anything.
RegistryFairness ==
    /\ []<>(exec.st # "run")
    /\ \A t \in 1..MaxTimers : WF_vars(TimerFire(t))
    /\ \A t \in 1..MaxTimers : WF_vars(\E ok \in BOOLEAN : TimerDone(t, ok))

\* One batch for the sidecars of Tom and Ann, and the user's togglePin.
DebounceBatches ==
    {<<Record("Tom", NPC_CLASSIFICATION.MAJOR, <<OpNotes>>)>>,
     <<Record("Ann", NPC_CLASSIFICATION.MINOR, <<>>)>>,
     <<Record("Ann", NPC_CLASSIFICATION.MAJOR, <<OpTimeline>>)>>}

DebounceInit ==
    /\ RegistryInit
    /\ npcs = [NoNpcs EXCEPT !["npc_tom"] = TomMinor, !["npc_ann"] = AnnMajor]

DebounceNext ==
    \/ \E classifications \in DebounceBatches : Process(classifications)
    \/ Execute
    \/ ExecStep
    \/ \E t \in 1..MaxTimers : TimerFire(t)
    \/ \E t \in 1..MaxTimers, ok \in BOOLEAN : TimerDone(t, ok)
    \/ \E id \in NpcIds : TogglePin(JsStr(id))

SpecDebounce == DebounceInit /\ [][DebounceNext]_vars /\ RegistryFairness

(***************************************************************************)
(* Two runs of the batch processor on entities of their own: each is       *)
(* processed and executed, and whenever the one at work is suspended or    *)
(* has returned the other may go on.                                       *)
(***************************************************************************)
TwoBatchInputs ==
    DebounceBatches \cup {<<Record("Tom", NPC_CLASSIFICATION.MINOR, <<OpNotes>>)>>}

\* The ids the actions of a batch are about.
IdsIn(lists) ==
    UNION {{GenerateNpcId(lists[ph][k].name) : k \in 1..Len(lists[ph])} : ph \in DOMAIN lists}

\* processClassifications for the second batch: on other entities.
ProcessApart(classifications) ==
    /\ {GenerateNpcId(classifications[k].name) : k \in 1..Len(classifications)}
            \cap IdsIn(parked.actions.lists) = {}
    /\ Process(classifications)

TwoBatchNext ==
    \/ \E classifications \in TwoBatchInputs : ProcessApart(classifications)
    \/ Execute
    \/ ExecStep
    \/ Switch
    \/ \E t \in 1..MaxTimers : TimerFire(t)
    \/ \E t \in 1..MaxTimers, ok \in BOOLEAN : TimerDone(t, ok)

SpecTwoBatches == DebounceInit /\ [][TwoBatchNext]_vars

(***************************************************************************)
(* markAsMentioned on a registry of MaxMentionIds minor sidecars.          *)
(***************************************************************************)
MaxMentionIds == 15

MaxMentions == 16

\* Calls that do not mention an entity for the first time.
MaxRepeats == MaxMentions - MaxMentionIds

recentlyMentionedMax == 10

\* mentioned.indexOf(npcId), from 1, 0 for -1
MentionIndex(list, npcId) ==
    IF \E k \in 1..Len(list) : list[k] = npcId
    THEN CHOOSE k \in 1..Len(list) : list[k] = npcId /\ \A j \in 1..(k - 1) : list[j] # npcId
    ELSE 0

\* if (index > -1) mentioned.splice(index, 1)
Spliced(list, index) ==
    IF index = 0 THEN list ELSE SubSeq(list, 1, index - 1) \o SubSeq(list, index + 1, Len(list))

\* mentioned.splice(10) behind the limit, without which the list grows.
Uncapped(list) == list

\* if (mentioned.length > 10) mentioned.splice(10)
Capped(list) ==
    IF Len(list) > recentlyMentionedMax THEN SubSeq(list, 1, recentlyMentionedMax) ELSE list

\* recentlyMentioned after markAsMentioned(npcId) on an entity there is
Remembered(list, npcId) == Capped(<<npcId>> \o Spliced(list, MentionIndex(list, npcId)))

\* NPCRegistry.markAsMentioned, as one of at most `max` calls of the user.
MarkAsMentionedWithin(npcId, max) ==
    /\ UserCallWithin(
        CASE ~HasNPC(npcs, npcId) ->
                Effect(npcs, history, "", FALSE, "", NullRef, "",
                       Log("markAsMentioned", "false", JsUndefined, npcId, JsUndefined,
                           JsUndefined))
          [] ~MetaAssignable(NpcAt(npcs, npcId)) ->
                Effect(npcs, history, "TypeError", FALSE, "", NullRef, "",
                       Log("markAsMentioned", "", JsUndefined, npcId, JsUndefined,
                           NpcAt(npcs, npcId)))
          [] OTHER ->
                Effect([npcs EXCEPT ![npcId.s] = Seen(@)], history, "", TRUE, "", NullRef, "",
                       Log("markAsMentioned", "true", JsUndefined, npcId, JsUndefined,
                           NpcAt(npcs, npcId))),
        max)
    /\ mentioned' = IF HasNPC(npcs, npcId) THEN Remembered(mentioned, npcId) ELSE mentioned
    /\ UNCHANGED activeNPCs

MarkAsMentioned(npcId) == MarkAsMentionedWithin(npcId, MaxMentions)

MentionId(i) == "npc_n" \o ToString(i)

MentionIds == {MentionId(i) : i \in 1..MaxMentionIds}

\* The entities markAsMentioned has been called on.
Mentioned(registry) ==
    {id \in DOMAIN registry : Get2(registry[id], "meta", "appearanceCount") # JsNum(1)}

\* The ids the calls are made with: the first entity not mentioned so far
\* and, MaxRepeats times, the entity mentioned last, the entity at the end
\* of the list, and an id the registry does not hold.
MentionChoices ==
    {MentionId(i) : i \in {k \in 1..MaxMentionIds :
                              /\ MentionId(k) \notin Mentioned(npcs)
                              /\ \A j \in 1..(k - 1) : MentionId(j) \in Mentioned(npcs)}}
    \cup (IF userCalls - Cardinality(Mentioned(npcs)) < MaxRepeats
          THEN {"npc_zed"} \cup {mentioned[k].s : k \in {1, Len(mentioned)} \cap DOMAIN mentioned}
          ELSE {})

MentionsInit ==
    /\ doc = JsUndefined
    /\ history = <<>>
    /\ call = NoCall
    /\ npcs = [id \in MentionIds |->
                  NewNpc(JsStr(id), JsStr("Guard"), NPC_CLASSIFICATION.MINOR,
                         [notes |-> JsUndefined, sentiment |-> JsUndefined]).val]
    /\ timers = [t \in 1..MaxTimers |-> FreeTimer]
    /\ saveQueue = 0
    /\ actions = NoActions
    /\ exec = IdleExec
    /\ userCalls = 0
    /\ mentioned = <<>>
    /\ callers = <<>>
    /\ parked = NoBatch
    /\ settings = defaultSettings
    /\ HostInit

MentionsNext ==
    \/ \E id \in MentionChoices : MarkAsMentioned(JsStr(id))
    \/ \E t \in 1..MaxTimers : TimerFire(t)
    \/ \E t \in 1..MaxTimers, ok \in BOOLEAN : TimerDone(t, ok)

SpecMentions == MentionsInit /\ [][MentionsNext]_vars

(***************************************************************************)
(* getOrCreate called by up to MaxResolves callers at once.  A caller is   *)
(* at "load" from its call to the end of `await this.load()`, at "save"    *)
(* while it awaits the promise of save(), and "returned" after that.       *)
(***************************************************************************)
MaxResolves == 3

CallerIds == {"c" \o ToString(i) : i \in 1..MaxResolves}

ResolveNames == {JsStr("Tom"), JsStr("tom"), JsStr("Ann"), JsStr("")}

NoCaller == [st |-> "idle", name |-> JsUndefined]

\* NPCRegistry.getOrCreate(name) is called and waits for load().
Resolve(c, name) ==
    /\ callers[c].st = "idle"
    /\ callers' = [callers EXCEPT ![c] = [st |-> "load", name |-> name]]
    /\ call' = [fn |-> "getOrCreate", step |-> "call", caller |-> c]
    /\ UNCHANGED <<doc, history, npcs, timers, saveQueue, actions, exec, userCalls, mentioned,
                   activeNPCs, parked, settings, sessionVars>>

\* getOrCreate from the end of `await this.load()` to its return, its
\* throw or its `await this.save()`: o is what it did.
Resolved(c, o) ==
    /\ npcs' = o.registry
    /\ timers' = Saved(o, c).timers
    /\ saveQueue' = Saved(o, c).saveQueue
    /\ callers' = [callers EXCEPT ![c].st =
                      CASE o.thrown \/ (o.await /\ CountsThrow(o.registry)) -> "threw"
                        [] o.await -> "save"
                        [] OTHER -> "returned"]
    /\ call' = [fn |-> "getOrCreate", step |-> "body", caller |-> c]
    /\ UNCHANGED <<doc, history, actions, exec, userCalls, mentioned, activeNPCs, parked, settings,
                   sessionVars>>

ResolveBody(c) ==
    /\ callers[c].st = "load"
    /\ CanSave(timers, saveQueue)
    /\ Resolved(c, GetOrCreate(npcs, history, callers[c], GenerateNpcId(callers[c].name),
                               NewNpc(GenerateNpcId(callers[c].name), callers[c].name,
                                      NPC_CLASSIFICATION.MINOR,
                                      [notes |-> JsUndefined, sentiment |-> JsUndefined])))

ResolveInit ==
    /\ doc = JsUndefined
    /\ history = <<>>
    /\ call = NoCall
    /\ npcs = NoNpcs
    /\ timers = [t \in 1..MaxTimers |-> FreeTimer]
    /\ saveQueue = 0
    /\ actions = NoActions
    /\ exec = IdleExec
    /\ userCalls = 0
    /\ mentioned = <<>>
    /\ callers = [c \in CallerIds |-> NoCaller]
    /\ parked = NoBatch
    /\ settings = defaultSettings
    /\ HostInit

ResolveNext ==
    \/ \E c \in CallerIds, name \in ResolveNames : Resolve(c, name)
    \/ \E c \in CallerIds : ResolveBody(c)
    \/ \E t \in 1..MaxTimers : TimerFire(t)
    \/ \E t \in 1..MaxTimers, ok \in BOOLEAN : TimerDone(t, ok)

SpecResolve == ResolveInit /\ [][ResolveNext]_vars

(***************************************************************************)
(* The two transforms on their own: one sidecar, held in doc, handed to    *)
(* migrateToMajor and migrateToMinor in any order.                         *)
(***************************************************************************)
MaxMigrations == 3

\* Minor sidecars as getOrCreate makes them (with and without notes and
\* sentiment), as an update of data.lastContext and togglePin leave them.
MinorSidecars ==
    {IF pin THEN Pinned(Set2(npc.val, "data", "lastContext", lastContext))
     ELSE Set2(npc.val, "data", "lastContext", lastContext) :
        npc \in {NewNpc(JsStr("npc_tom"), JsStr("Tom"), NPC_CLASSIFICATION.MINOR,
                        [notes |-> notes, sentiment |-> sentiment]) :
                    notes \in {JsUndefined, JsStr("a guard")},
                    sentiment \in {JsUndefined, JsStr("Friendly"), JsStr("Hostile")}},
        lastContext \in {JsStr(""), JsStr("at the gate")},
        pin \in BOOLEAN}

MigrationInit ==
    /\ doc \in MinorSidecars
    /\ history = <<>>
    /\ call = NoCall
    /\ npcs = <<>>
    /\ timers = <<>>
    /\ saveQueue = 0
    /\ actions = <<>>
    /\ exec = <<>>
    /\ userCalls = 0
    /\ mentioned = <<>>
    /\ callers = <<>>
    /\ parked = <<>>
    /\ settings = defaultSettings
    /\ HostInit

\* A transform returned or threw; the sidecar it was given is as it was.
Transformed(fn, r) ==
    /\ userCalls < MaxMigrations
    /\ userCalls' = userCalls + 1
    /\ doc' = IF r.thrown THEN doc ELSE r.val
    /\ call' = [fn |-> fn, before |-> doc, thrown |-> r.thrown, prev |-> call]
    /\ UNCHANGED <<history, npcs, timers, saveQueue, actions, exec, mentioned, activeNPCs, callers,
                   parked, settings, sessionVars>>

\* migrateToMajor(doc, reason)
Promote == Transformed("migrateToMajor", MigrateToMajor(doc, JsStr("why")))

\* migrateToMinor(doc, reason)
Demote == Transformed("migrateToMinor", MigrateToMinor(doc, JsStr("why")))

MigrationNext == Promote \/ Demote

SpecMigration == MigrationInit /\ [][MigrationNext]_vars


(***************************************************************************)
(* Claims about the engine.                                                *)
(***************************************************************************)
IsValidOp(operation) == Validate(operation).valid

\* The document after apply is called on each operation in turn, whatever
\* each call returns or throws.
RECURSIVE AppliedInOrder(_, _)
AppliedNext(rest, r) == AppliedInOrder(r.doc, rest)

AppliedInOrder(data, operations) ==
    IF operations = <<>> THEN data
    ELSE AppliedNext(Tail(operations), Apply(data, <<>>, Head(operations)))

\* C1: applyBatch returns one result per operation, in the order of the
\* list; an operation validation rejects gets a failure result and changes
\* nothing, and the batch goes on: the document afterwards is the one
\* obtained by applying the valid operations alone, in order, and the i-th
\* result says whether apply threw on the document left by the first i-1.
C1_BatchIsolation ==
    call.fn = "applyBatch" =>
        /\ Len(call.results) = Len(call.operations)
        /\ \A i \in 1..Len(call.operations) :
              /\ call.results[i].operation = call.operations[i]
              /\ ~IsValidOp(call.operations[i]) => ~call.results[i].success
              /\ call.results[i].success <=>
                    ~Apply(AppliedInOrder(call.before, SubSeq(call.operations, 1, i - 1)),
                           <<>>, call.operations[i]).thrown
        /\ doc = AppliedInOrder(call.before, SelectSeq(call.operations, IsValidOp))

\* A batch [valid, invalid, valid] whose two valid operations both took
\* effect: {a: ["x", ...], n: 7} became {a: [..., b: "x"], n: -3}.
C1_Witness ==
    /\ call.fn = "applyBatch"
    /\ call.before = DocSample
    /\ call.operations = <<Operation(JsStr("set"), JsStr("a.b"), JsStr("x")),
                           Operation(JsStr("replace"), JsStr("a"), JsStr("x")),
                           Operation(JsStr("increment"), JsStr("n"), JsStr("-10"))>>
    /\ [i \in 1..3 |-> call.results[i].success] = <<TRUE, FALSE, TRUE>>
    /\ GetNestedValue(doc, JsStr("a.b")).val = JsStr("x")
    /\ GetNestedValue(doc, JsStr("n")).val = JsNum(-3)

\* What C2 calls an operation apply must reject: null, no kind, no path, or
\* a kind that is none of the six.
Rejectable(operation) ==
    \/ operation.nul
    \/ operation.op = JsUndefined
    \/ operation.path = JsUndefined
    \/ ~(operation.op.t = "string" /\ operation.op.s \in OPERATION_TYPES)

\* C2: apply rejects a null operation, one without kind, one without path
\* and one of an unknown kind in its validation step, before anything is
\* attempted: it throws "Invalid operation" and the document and the
\* history are what they were.
C2_ApplyRejectsInvalid ==
    (call.fn = "apply" /\ Rejectable(call.operation)) =>
        /\ call.thrown
        /\ call.err = "Invalid operation"
        /\ doc = call.before
        /\ history = call.historyBefore

\* apply was called with a set that has no path on a document that is not
\* empty, and threw.
C2_Witness ==
    /\ call.fn = "apply"
    /\ call.operation = Operation(JsStr("set"), JsUndefined, JsStr("x"))
    /\ call.before = DocSample
    /\ call.thrown


(***************************************************************************)
(* Claims about the registry and the batch processor.                      *)
(***************************************************************************)
Classification(npc) == Get2(npc, "meta", "classification")

IsPinned(npc) == Truthy(Get2(npc, "meta", "userPinned"))

Range(s) == {s[k] : k \in 1..Len(s)}

\* C3: an automatic promotion or demotion is never committed to a sidecar
\* that is pinned at the moment of the commit, however process, execute
\* and togglePin interleave.
C3_PinImmunity ==
    (call.fn = "execute" /\ call.step \in {"promote", "demote"}) => ~IsPinned(call.stored)

MinorShape(npc) ==
    /\ HasOwn(npc, "data")
    /\ \A k \in {"notes", "sentiment", "lastContext"} : HasOwn(GetProp(npc, "data"), k)
    /\ \A k \in {"trackers", "timeline", "narrativeRole"} : ~HasOwn(npc, k)

MajorShape(npc) ==
    /\ \A k \in {"trackers", "timeline", "narrativeRole"} : HasOwn(npc, k)
    /\ ~HasOwn(npc, "data")

\* C5: every sidecar of the registry has the payload of its classification
\* and nothing of the other: a minor one data (notes, sentiment,
\* lastContext) and no trackers, timeline or narrativeRole, a major one
\* these three and no data.
C5_OnePayloadShape ==
    \A id \in NpcIds :
        npcs[id] # JsUndefined =>
            \/ Classification(npcs[id]) = NPC_CLASSIFICATION.MINOR /\ MinorShape(npcs[id])
            \/ Classification(npcs[id]) = NPC_CLASSIFICATION.MAJOR /\ MajorShape(npcs[id])

\* C6: when execute applies the update operations of a create or of an
\* update action to a sidecar, it has remapped them for the classification
\* the sidecar stored under the id has at that moment.
C6_RemapUsesStoredClassification ==
    (call.fn = "execute" /\ call.step \in {"applyCreate", "applyUpdate"}
        /\ call.stored # JsUndefined) =>
        call.remapClass = Classification(call.stored)

\* The queued migrations of the sidecar under npcId, and whether one of
\* them has been carried out.
QueuedFor(list, npcId) == {k \in 1..Len(list) : list[k].npcId = npcId}

CarriedOut(list, done, npcId) == \E k \in QueuedFor(list, npcId) : list[k].name \in Range(done)

ErrorsOf(action) == SelectSeq(exec.results.errors, LAMBDA e : e.action = action)

UpdateOfMigrated ==
    /\ call.fn = "execute"
    /\ call.step = "applyUpdate"
    /\ QueuedFor(actions.lists.promotions \o actions.lists.demotions, call.npcId) # {}

Malformed(operation) ==
    \/ operation.nul
    \/ operation.path = JsUndefined
    \/ operation.op = JsUndefined
    \/ ~(operation.op.t = "string" /\ operation.op.s \in OPERATION_TYPES)

HasMalformed(operations) == \E k \in 1..Len(operations) : Malformed(operations[k])

\* C8: when execute has returned, every create and every update action
\* that carried a malformed operation has an entry in errors (here for runs
\* without a call of the user, in which every update finds its sidecar).
C8_FailuresReported ==
    (exec.st = "done" /\ userCalls = 0) =>
        /\ \A k \in 1..Len(actions.lists.updates) :
              HasMalformed(actions.lists.updates[k].operations) =>
                 \E e \in Range(ErrorsOf("update")) : e.name = actions.lists.updates[k].name
        /\ \A k \in 1..Len(actions.lists.creates) :
              HasMalformed(actions.lists.creates[k].updates) =>
                 \E e \in Range(ErrorsOf("create")) : e.name = actions.lists.creates[k].name

C10_EveryActionAccounted ==
    exec.st = "done" =>
        /\ Len(exec.results.created) + Len(ErrorsOf("create")) = Len(actions.lists.creates)
        /\ Len(exec.results.promoted) + Len(ErrorsOf("promote")) = Len(actions.lists.promotions)
        /\ Len(exec.results.demoted) + Len(ErrorsOf("demote")) = Len(actions.lists.demotions)
        /\ Len(exec.results.updated) + Len(ErrorsOf("update")) = Len(actions.lists.updates)

\* An operation of a kind other than delete that carries no value.
Valueless(operation) ==
    /\ ~operation.nul
    /\ operation.op.t = "string"
    /\ operation.op.s \in OPERATION_TYPES \ {"delete"}
    /\ operation.value = JsUndefined

\* C23: validation rejects a set, add, remove, append or increment without
\* a value: apply throws "Invalid operation", applyBatch gives it a failure
\* result, and the document is what it was.
C23_ValueRequired ==
    /\ (call.fn = "apply" /\ Valueless(call.operation)) =>
          /\ call.thrown
          /\ call.err = "Invalid operation"
          /\ doc = call.before
    /\ call.fn = "applyBatch" =>
          /\ \A i \in 1..Len(call.operations) :
                Valueless(call.operations[i]) => ~call.results[i].success
          /\ (\A i \in 1..Len(call.operations) : Valueless(call.operations[i])) =>
                doc = call.before

\* A valid operation whose path is a string that is not empty and has no
\* key.
OnEmptyPath(operation) ==
    /\ IsValidOp(operation)
    /\ operation.path.t = "string"
    /\ operation.path.s # ""
    /\ Keys(operation.path) = <<>>

\* C24: apply of an operation of any kind on a path string that is not
\* empty and parses to no key throws, and the document is what it was.
C24_EmptyPathFails ==
    (call.fn = "apply" /\ OnEmptyPath(call.operation)) =>
        /\ call.thrown
        /\ doc = call.before

\* C25: preview and previewBatch leave the document of the caller as it
\* was; preview reports what the path holds as oldValue, and the i-th
\* preview of previewBatch reports what its path holds once the first i-1
\* operations of the list have been applied.
C25_PreviewBatchSequential ==
    /\ (call.fn = "preview" /\ ~call.returned.thrown) =>
          /\ doc = call.before
          /\ call.returned.oldValue = GetNestedValue(call.before, call.operation.path).val
    /\ call.fn = "previewBatch" =>
          /\ doc = call.before
          /\ \A i \in 1..Len(call.previews) :
                call.previews[i].oldValue =
                    GetNestedValue(AppliedInOrder(call.before,
                                                  SubSeq(call.operations, 1, i - 1)),
                                   call.operations[i].path).val

(***************************************************************************)
(* Claims about the single operations of the engine.                       *)
(***************************************************************************)
\* What the document of the call holds at the path of its operation.
At(data, operation) == GetNestedValue(data, operation.path).val

\* apply was called twice in a row with the same operation, and returned
\* both times; call.prev.before is the document before the first call,
\* call.before the one between the two.
AppliedTwice(kind) ==
    /\ call.fn = "apply"
    /\ call.prev # NoCall
    /\ call.prev.operation = call.operation
    /\ call.operation.op = JsStr(kind)
    /\ ~call.prev.thrown
    /\ ~call.thrown

\* The elements a value counts for once add has made an array of it.
ElementCount(v) == IF v.t = "array" THEN Len(v.e) ELSE IF IsNullish(v) THEN 0 ELSE 1

\* C15: add of a string or a number applied twice in a row leaves at the
\* path the array it left the first time; add of an object applied twice
\* leaves an array with two more elements than there were before.
C15_AddDedup ==
    AppliedTwice("add") =>
        /\ call.operation.value.t \in {"string", "number"} =>
              /\ At(doc, call.operation) = At(call.before, call.operation)
              /\ At(doc, call.operation).t = "array"
        /\ call.operation.value.t = "object" =>
              /\ At(doc, call.operation).t = "array"
              /\ Len(At(doc, call.operation).e) =
                    ElementCount(At(call.prev.before, call.operation)) + 2

\* add("n", 7) twice on {n: 7, ...}: n is [7, 7] after the first call and
\* after the second.
C15_Witness ==
    /\ AppliedTwice("add")
    /\ call.prev.before = DocSample
    /\ call.operation = Operation(JsStr("add"), JsStr("n"), JsNum(7))
    /\ At(doc, call.operation) = JsArr(<<JsNum(7), JsNum(7)>>)

\* C16: remove at a path whose value is not an array returns and leaves
\* the document as it was, whatever the value of the operation.
C16_RemoveNoOp ==
    (call.fn = "apply" /\ ~call.operation.nul /\ call.operation.op = JsStr("remove")
        /\ IsValidOp(call.operation)
        /\ ~GetNestedValue(call.before, call.operation.path).thrown
        /\ At(call.before, call.operation).t # "array") =>
        /\ ~call.thrown
        /\ doc = call.before

\* remove("o", {k: "x"}) on {..., o: {k: "x"}}: o is an object, and is
\* still there.
C16_Witness ==
    /\ call.fn = "apply"
    /\ call.before = DocSample
    /\ call.operation = Operation(JsStr("remove"), JsStr("o"), JsObj(<<Prop("k", JsStr("x"))>>))
    /\ ~call.thrown
    /\ doc = DocSample

\* C17: increment with a value parseFloat makes nothing of returns and
\* leaves the document as it was, whatever the path holds.
C17_IncrementUnparsable ==
    (call.fn = "apply" /\ ~call.operation.nul /\ call.operation.op = JsStr("increment")
        /\ IsNaN(ParseIncrement(call.operation.value))) =>
        /\ ~call.thrown
        /\ doc = call.before

(***************************************************************************)
(* Claims about migrations that fail.                                      *)
(***************************************************************************)
\* What the migration loop of the batch is about to get from its transform.
MigrationOf(x, a) ==
    IF PhaseName(x) = "promotions"
    THEN MigrateToMajor(Deref(a.existingData, npcs, a.npcId), a.reason)
    ELSE MigrateToMinor(Deref(a.existingData, npcs, a.npcId), a.reason)

\* The batch is at a promotion or demotion whose transform throws.
BatchMigrationFails ==
    /\ exec.st = "run"
    /\ exec.stage = "begin"
    /\ PhaseName(exec) \in {"promotions", "demotions"}
    /\ MigrationOf(exec, CurrentAction(exec)).thrown

\* promoteNPC or demoteNPC is called on a sidecar whose transform throws.
ManualMigrationFails(fn, npc) ==
    /\ Truthy(npc)
    /\ Truthy(GetProp(npc, "meta"))
    /\ \/ /\ fn = "promoteNPC"
          /\ Classification(npc) # NPC_CLASSIFICATION.MAJOR
          /\ MigrateToMajor(npc, JsStr("Manual promotion by user")).thrown
       \/ /\ fn = "demoteNPC"
          /\ Classification(npc) # NPC_CLASSIFICATION.MINOR
          /\ MigrateToMinor(npc, JsStr("Manual demotion by user")).thrown

\* C11: a step of the batch whose promote or demote transform throws leaves
\* every record of the registry as it was, adds no name to promoted or
\* demoted and adds one entry, with the action and the name, to errors; a
\* promoteNPC or demoteNPC whose transform throws leaves every record as it
\* was and returns null. The sidecar the transform was given is unchanged.
C11_FailedMigrationKeepsRecord ==
    [][/\ BatchMigrationFails =>
            /\ npcs' = npcs
            /\ actions' = actions
            /\ exec'.results =
                  [exec.results EXCEPT !.errors =
                      Append(@, [action |-> ActionWord(PhaseName(exec)),
                                 name |-> CurrentAction(exec).name,
                                 error |-> MigrationOf(exec, CurrentAction(exec)).err])]
       /\ \A id \in NpcIds :
            (/\ userCalls' = userCalls + 1
             /\ call'.fn \in {"promoteNPC", "demoteNPC"}
             /\ call'.npcId = JsStr(id)
             /\ ManualMigrationFails(call'.fn, npcs[id])) =>
                /\ npcs' = npcs
                /\ call'.step = "null"
                /\ call'.stored = npcs[id]]_vars

\* The batch ran the promotion of Tom, whose sentiment is the number 5: the
\* transform threw, Tom is the minor sidecar he was, and errors says so.
C11_Witness ==
    /\ call.fn = "execute"
    /\ call.step = "throw"
    /\ call.npcId = JsStr("npc_tom")
    /\ npcs["npc_tom"] = TomNumberSentiment
    /\ exec.results.promoted = <<>>
    /\ \E k \in 1..Len(exec.results.errors) :
          exec.results.errors[k] =
              [action |-> "promote", name |-> JsStr("Tom"), error |-> "TypeError"]

(***************************************************************************)
(* Claims about the debounced save.                                        *)
(***************************************************************************)
\* The timers of save() that have not fired yet.
PendingTimers == {t \in 1..MaxTimers : timers[t].phase = "waiting"}

\* C12: the debounce leaves one write for a burst of mutations: a save()
\* issued before the timer of the save() before it has fired takes that
\* timer's place, so that at most one write timer is pending at any time
\* (and the burst ends in exactly one write).
C12_OneWriteTimer == Cardinality(PendingTimers) <= 1

\* C13: an execute() in progress returns to its caller in the end, whatever
\* other mutation is issued while one of its writes has yet to fire.
C13_ExecuteReturns == (exec.st \in {"run", "await"}) ~> (exec.st = "done")

(***************************************************************************)
(* Claims about the two transforms.                                        *)
(***************************************************************************)
\* migrateToMajor was applied to a minor sidecar and migrateToMinor to what
\* it returned.
RoundTripped ==
    /\ call.fn = "migrateToMinor"
    /\ ~call.thrown
    /\ call.prev.fn = "migrateToMajor"
    /\ ~call.prev.thrown
    /\ Classification(call.prev.before) = NPC_CLASSIFICATION.MINOR

\* C18: promote then demote gives a minor sidecar whose sentiment is the
\* sentiment of the minor sidecar it began with, the empty one included.
C18_RoundTripKeepsSentiment ==
    RoundTripped =>
        /\ Classification(doc) = NPC_CLASSIFICATION.MINOR
        /\ DataOf(doc, "sentiment") = DataOf(call.prev.before, "sentiment")

(***************************************************************************)
(* Claims about the list of the entities mentioned last.                   *)
(***************************************************************************)
\* C19: after any calls of markAsMentioned on entities of the registry,
\* recentlyMentioned has at most 10 entries and none twice, the entity of
\* the last call is its first entry, and it is as long as the number of
\* the entities mentioned, up to 10: after 15 calls with 15 different ids
\* it has exactly 10 entries.
C19_RecentlyMentioned ==
    /\ Len(mentioned) <= 10
    /\ \A j, k \in 1..Len(mentioned) : mentioned[j] = mentioned[k] => j = k
    /\ (call.fn = "markAsMentioned" /\ call.step = "true") => mentioned[1] = call.npcId
    /\ Len(mentioned) =
          IF Cardinality(Mentioned(npcs)) < 10 THEN Cardinality(Mentioned(npcs)) ELSE 10

\* 15 calls were made, with the 15 ids of the registry: the list holds the
\* last 10 of them, the last one first.
C19_Witness ==
    /\ userCalls = 15
    /\ Cardinality(Mentioned(npcs)) = 15
    /\ call.fn = "markAsMentioned"
    /\ mentioned = [k \in 1..10 |-> JsStr(MentionId(16 - k))]

(***************************************************************************)
(* Claims about getOrCreate.                                               *)
(***************************************************************************)
\* The callers whose getOrCreate has looked the id up.
ResolvedFor(id) ==
    {c \in DOMAIN callers :
        callers[c].st \in {"save", "returned"} /\ GenerateNpcId(callers[c].name) = JsStr(id)}

\* C20: the first getOrCreate of a name whose id the registry does not
\* hold makes one sidecar with appearanceCount 1, and every later one with
\* the same derived id makes none and adds 1 to the count: after n calls
\* the count is n, whichever way the calls interleave.
C20_ResolveCounts ==
    \A id \in NpcIds :
        IF ResolvedFor(id) = {}
        THEN npcs[id] = JsUndefined
        ELSE /\ Get2(npcs[id], "meta", "appearanceCount") = JsNum(Cardinality(ResolvedFor(id)))
             /\ Get2(npcs[id], "meta", "npcId") = JsStr(id)
             /\ \E c \in ResolvedFor(id) : Get2(npcs[id], "meta", "name") = callers[c].name

\* Three calls for "Tom" and "tom" were under way at once, none has
\* returned yet, and Tom's count is 3.
C20_Witness ==
    /\ \A c \in CallerIds : callers[c].st = "save"
    /\ callers["c1"].name = JsStr("tom")
    /\ callers["c2"].name = JsStr("Tom")
    /\ Get2(npcs["npc_tom"], "meta", "appearanceCount") = JsNum(3)
    /\ npcs["npc_ann"] = JsUndefined

(***************************************************************************)
(* Claims about two batches at once.                                       *)
(***************************************************************************)
\* A batch run from its first to its last action with nothing in between:
\* the registry it leaves.
RECURSIVE RanAlone(_, _, _, _)
Stepped(lists, x, o) ==
    IF o.thrown \/ (o.await /\ CountsThrow(o.registry)) \/ o.next \in {"finish", "skip"}
    THEN GoOn(x, x.results, Seek(lists, x.ph, x.i + 1))
    ELSE [x EXCEPT !.stage = o.next, !.npc = o.ref]

RanNext(lists, x, o) == RanAlone(o.registry, o.history, lists, Stepped(lists, x, o))

RanAlone(registry, engineHistory, lists, x) ==
    IF x.st = "done" THEN registry
    ELSE RanNext(lists, x, PieceOn(registry, engineHistory, x, lists[PhaseName(x)][x.i]))

\* The one batch, then the other.
OneAfterTheOther(registry, first, second) ==
    RanAlone(RanAlone(registry, <<>>, first, GoOn(IdleExec, EmptyResults, Seek(first, 1, 1))),
             <<>>, second, GoOn(IdleExec, EmptyResults, Seek(second, 1, 1)))

\* Both batches were executed and nothing is left that could go on.
BothCameToRest ==
    /\ exec.st \in {"await", "done"}
    /\ parked.exec.st \in {"await", "done"}
    /\ \A t \in DOMAIN timers : timers[t].phase = "free"

\* C14: two batches on entities of their own, interleaved at their awaits,
\* leave the records that the two leave when run one after the other, in
\* either order.
C14_InterleavedAsSequential ==
    BothCameToRest =>
        /\ npcs = OneAfterTheOther([NoNpcs EXCEPT !["npc_tom"] = TomMinor,
                                                  !["npc_ann"] = AnnMajor],
                                   actions.lists, parked.actions.lists)
        /\ npcs = OneAfterTheOther([NoNpcs EXCEPT !["npc_tom"] = TomMinor,
                                                  !["npc_ann"] = AnnMajor],
                                   parked.actions.lists, actions.lists)

(***************************************************************************)
(* The registry under everything that is done to it: one getOrCreate and   *)
(* the calls of the user (markAsMentioned, togglePin, promoteNPC,          *)
(* demoteNPC, deleteNPC) around one run of the batch processor.  A call is *)
(* made when no continuation is ready to run.                              *)
(***************************************************************************)
\* One batch: one record, or two records that name Tom.
OpCount == Operation(JsStr("set"), JsStr("meta.appearanceCount"), JsNum(0))

OpReclassify ==
    Operation(JsStr("set"), JsStr("meta.classification"), NPC_CLASSIFICATION.MAJOR)

OpUnpin == Operation(JsStr("set"), JsStr("meta.userPinned"), JsBool(FALSE))

LifecycleBatches ==
    DebounceBatches
        \cup {<<Record("Tom", NPC_CLASSIFICATION.MAJOR, <<OpNotes>>),
                Record("Tom", NPC_CLASSIFICATION.MAJOR, <<>>)>>,
              <<Record("Ann", NPC_CLASSIFICATION.MAJOR, <<OpCount>>)>>,
              <<Record("Tom", NPC_CLASSIFICATION.MAJOR, <<>>),
                Record("Ann", NPC_CLASSIFICATION.MINOR, <<>>)>>,
              <<Record("Tom", NPC_CLASSIFICATION.MINOR, <<OpReclassify, OpUnpin>>)>>}

\* A timer for the batch, for getOrCreate and for each call of the user.
LifecycleTimers == MaxUserCalls + 2

LifecycleInit ==
    /\ doc = JsUndefined
    /\ history = <<>>
    /\ call = NoCall
    /\ npcs \in {NoNpcs, [NoNpcs EXCEPT !["npc_tom"] = TomMinor, !["npc_ann"] = AnnMajor]}
    /\ timers = [t \in 1..LifecycleTimers |-> FreeTimer]
    /\ saveQueue = 0
    /\ actions = NoActions
    /\ exec = IdleExec
    /\ userCalls = 0
    /\ mentioned = <<>>
    /\ callers = [c \in {"c1"} |-> NoCaller]
    /\ parked = NoBatch
    /\ settings = defaultSettings
    /\ HostInit

LifecycleNext ==
    \/ \E classifications \in LifecycleBatches : Process(classifications)
    \/ Execute
    \/ ExecStep
    \/ \E t \in 1..LifecycleTimers : TimerFire(t)
    \/ \E t \in 1..LifecycleTimers, ok \in BOOLEAN : TimerDone(t, ok)
    \/ \E name \in {JsStr("Tom"), JsStr("Ann")} : ~Runnable /\ Resolve("c1", name)
    \/ ~Runnable /\ ResolveBody("c1")
    \/ \E id \in NpcIds : MarkAsMentionedWithin(JsStr(id), MaxUserCalls)
    \/ \E id \in NpcIds : TogglePin(JsStr(id))
    \/ \E id \in NpcIds : PromoteNPC(JsStr(id))
    \/ \E id \in NpcIds : DemoteNPC(JsStr(id))
    \/ \E id \in NpcIds : DeleteNPC(JsStr(id))

SpecLifecycle == LifecycleInit /\ [][LifecycleNext]_vars

(***************************************************************************)
(* The settings panel and the analysis of a message: the user changes the  *)
(* NPC tracking settings, a message brings the classifications of the      *)
(* analyzer, and the user promotes and demotes by hand.                    *)
(***************************************************************************)

\* The handler bindCheckbox and bindInput attach: settings[key] = value.
ChangeSetting(key, value) ==
    /\ ~Runnable
    /\ ~(actions.from = "process" /\ exec.st = "idle")
    /\ settings' = [settings EXCEPT ![key] = value]
    /\ call' = [fn |-> "change", key |-> key, value |-> value]
    /\ UNCHANGED <<doc, history, npcs, timers, saveQueue, actions, exec, userCalls, mentioned,
                   activeNPCs, callers, parked, sessionVars>>

\* (v) => Math.max(1, Math.min(20, parseInt(v) || 5))
MaxMajorParser(v) ==
    CASE OrElse(ParseInt(v), JsNum(5)).n < JsNum(1).n -> JsNum(1)
      [] OrElse(ParseInt(v), JsNum(5)).n > JsNum(20).n -> JsNum(20)
      [] OTHER -> OrElse(ParseInt(v), JsNum(5))

\* What the user types into "Max Major NPCs".
MaxMajorInputs == {"1", "5", "", "-10"}

\* processNPCClassifications(npcClassifications, sceneNPCs, settings) up to
\* the call of executeClassificationActions, which the steps of execute
\* carry on.
ProcessNPCClassifications(npcClassifications) ==
    /\ npcClassifications # <<>>
    /\ Process(npcClassifications)

\* onMessageReceived once the analysis returned `result`.
OnMessageReceived(result) ==
    /\ Truthy(settings.npcEnabled)
    /\ ProcessNPCClassifications(result)

\* The classifications an analysis returns.
SettingsBatches ==
    {<<Record("Tom", NPC_CLASSIFICATION.MAJOR, <<>>)>>,
     <<Record("Ann", NPC_CLASSIFICATION.MINOR, <<>>)>>,
     <<Record("Tom", NPC_CLASSIFICATION.MAJOR, <<>>),
       Record("Ann", NPC_CLASSIFICATION.MINOR, <<OpNotes>>)>>}

\* this.registry.meta.majorCount as updateCounts sets it.
MajorCount(registry) ==
    Cardinality({id \in DOMAIN registry :
                    /\ registry[id] # JsUndefined
                    /\ Get2(registry[id], "meta", "classification")
                            = NPC_CLASSIFICATION.MAJOR})

SettingsInit ==
    /\ doc = JsUndefined
    /\ history = <<>>
    /\ call = NoCall
    /\ npcs = [NoNpcs EXCEPT !["npc_tom"] = TomMinor, !["npc_ann"] = AnnMajor]
    /\ timers = [t \in 1..MaxTimers |-> FreeTimer]
    /\ saveQueue = 0
    /\ actions = NoActions
    /\ exec = IdleExec
    /\ userCalls = 0
    /\ mentioned = <<>>
    /\ callers = <<>>
    /\ parked = NoBatch
    /\ settings = defaultSettings
    /\ HostInit

SettingsNext ==
    \/ \E checked \in BOOLEAN : ChangeSetting("npcEnabled", JsBool(checked))
    \/ \E checked \in BOOLEAN : ChangeSetting("npcAutoClassify", JsBool(checked))
    \/ \E v \in MaxMajorInputs : ChangeSetting("npcMaxMajor", MaxMajorParser(v))
    \/ \E result \in SettingsBatches : OnMessageReceived(result)
    \/ Execute
    \/ ExecStep
    \/ \E t \in 1..MaxTimers : TimerFire(t)
    \/ \E t \in 1..MaxTimers, ok \in BOOLEAN : TimerDone(t, ok)
    \/ \E id \in NpcIds : actions.from = "none" /\ PromoteNPC(JsStr(id))
    \/ \E id \in NpcIds : actions.from = "none" /\ DemoteNPC(JsStr(id))

SpecSettings == SettingsInit /\ [][SettingsNext]_vars

(***************************************************************************)
(* setClassification among the calls of the user: togglePin, promoteNPC    *)
(* and demoteNPC make the sidecars it is asked about.                      *)
(***************************************************************************)
ClassifyNext ==
    \/ \E id \in NpcIds, target \in {NPC_CLASSIFICATION.MINOR, NPC_CLASSIFICATION.MAJOR} :
          RequestClassification(JsStr(id), target, JsStr("why"))
    \/ \E id \in NpcIds : TogglePin(JsStr(id))
    \/ \E id \in NpcIds : PromoteNPC(JsStr(id))
    \/ \E id \in NpcIds : DemoteNPC(JsStr(id))
    \/ \E t \in 1..MaxTimers : TimerFire(t)
    \/ \E t \in 1..MaxTimers, ok \in BOOLEAN : TimerDone(t, ok)

SpecClassify == RegistryInit /\ [][ClassifyNext]_vars

\* setClassification was called for a sidecar the registry holds, with meta.
Requested ==
    /\ call.fn = "setClassification"
    /\ HasNPC(call.before, call.npcId)
    /\ ~call.returned.thrown

\* C22: setClassification changes nothing; it returns null where the
\* sidecar has the target classification already or is pinned (the function
\* has no argument that could mark a call as the user's, so every call is
\* an automatic one), and otherwise an object with the current
\* classification, the target and the reason.
C22_RequestClassification ==
    Requested =>
        /\ npcs = call.before
        /\ IF \/ Classification(NpcAt(call.before, call.npcId)) = call.target
              \/ IsPinned(NpcAt(call.before, call.npcId))
           THEN call.returned.val = JsNull
           ELSE /\ GetProp(call.returned.val, "currentClassification") =
                      Classification(NpcAt(call.before, call.npcId))
                /\ GetProp(call.returned.val, "targetClassification") = call.target
                /\ GetProp(call.returned.val, "reason") = call.reason

(***************************************************************************)
(* Claims about what a promotion and a demotion make of a record.          *)
(***************************************************************************)
\* The batch is at a promotion: the sidecar that promotion holds (what
\* process found under the id) and the id.
AtPromotion == exec.st = "run" /\ PhaseName(exec) = "promotions" /\ exec.stage = "begin"

Former == Deref(CurrentAction(exec).existingData, npcs, CurrentAction(exec).npcId)

\* `new` is what the claim says a promotion makes of the minor `old`.
PromotedFrom(old, new, reason) ==
    /\ Classification(new) = NPC_CLASSIFICATION.MAJOR
    /\ DataOf(old, "notes") \in Range(Elems(Get2(new, "trackers", "knowledge")))
    /\ Elems(GetProp(new, "timeline")) # <<>>
    /\ Elems(GetProp(new, "timeline"))[1] =
          Event(JsStr("First tracked: " \o ToText(DataOf(old, "notes"))),
                Get2(old, "meta", "firstAppearance"))
    /\ Get2(new, "meta", "promotedFrom") = NPC_CLASSIFICATION.MINOR
    /\ Get2(new, "meta", "promotionReason") = reason

\* C21: the promotion the batch carries out for an unpinned minor sidecar
\* with notes leaves under the id a major sidecar whose knowledge holds the
\* notes, whose timeline begins with "First tracked: " and the notes at
\* firstAppearance, and whose meta has promotedFrom 'minor' and the
\* reasoning of the record as promotionReason.
C21_PromotionSeeds ==
    [][(/\ AtPromotion
        /\ Classification(Former) = NPC_CLASSIFICATION.MINOR
        /\ ~IsPinned(Former)
        /\ Truthy(DataOf(Former, "notes"))) =>
            PromotedFrom(Former, NpcAt(npcs', CurrentAction(exec).npcId),
                         CurrentAction(exec).reason)]_vars

\* A demotion was committed: by the batch, or by demoteNPC.
Demoted ==
    \/ call.fn = "execute" /\ call.step = "demote"
    \/ call.fn = "demoteNPC" /\ call.step = "replaceNPC"

\* C28: a demotion, of the batch or by demoteNPC, leaves under the id a
\* minor sidecar whose meta has demotedFrom 'major'.
C28_DemotedFromMajor ==
    (Demoted /\ Classification(call.stored) = NPC_CLASSIFICATION.MAJOR) =>
        /\ Classification(NpcAt(npcs, call.npcId)) = NPC_CLASSIFICATION.MINOR
        /\ Get2(NpcAt(npcs, call.npcId), "meta", "demotedFrom") = NPC_CLASSIFICATION.MAJOR

(***************************************************************************)
(* Claims about the life of an entity in the registry.                     *)
(***************************************************************************)
\* C26: an id the registry holds is still held after every step, whoever
\* takes it (getOrCreate, markAsMentioned, process, execute, promoteNPC,
\* demoteNPC, togglePin, a timer), except the step of a deleteNPC of that id.
C26_OnlyDeleteRemoves ==
    [][\A id \in NpcIds :
          (HasNPC(npcs, JsStr(id)) /\ ~HasNPC(npcs', JsStr(id))) =>
              (call'.fn = "deleteNPC" /\ call'.npcId = JsStr(id))]_vars

\* The batch promoted Tom after a getOrCreate and a call of the user that
\* was no deleteNPC: the registry holds Tom and Ann.
C26_Witness ==
    /\ call.fn = "execute"
    /\ exec.st = "done"
    /\ exec.results.promoted = <<JsStr("Tom")>>
    /\ callers["c1"].st = "returned"
    /\ userCalls > 0
    /\ \A id \in NpcIds : HasNPC(npcs, JsStr(id))

\* npc.meta.appearanceCount of the entity held under id.
CountOf(registry, id) == Get2(registry[id], "meta", "appearanceCount")

\* The step is the call of togglePin, promoteNPC or demoteNPC on id, or a
\* step of execute that handles id in the promotion, demotion or update loop.
KeepsCount(id) ==
    \/ call'.fn \in {"togglePin", "promoteNPC", "demoteNPC"} /\ call'.npcId = JsStr(id)
    \/ /\ call'.fn = "execute"
       /\ call'.step \in {"promote", "demote", "throw", "remap", "applyUpdate"}
       /\ call'.npcId = JsStr(id)

\* The step is markAsMentioned(id), or the body of a getOrCreate whose name
\* resolves to id.
Counts(id) ==
    \/ call'.fn = "markAsMentioned" /\ call'.step = "true" /\ call'.npcId = JsStr(id)
    \/ /\ call'.fn = "getOrCreate"
       /\ call'.step = "body"
       /\ GenerateNpcId(callers[call'.caller].name) = JsStr(id)
       /\ callers'[call'.caller].st # "threw"

\* C27: every entity held has an appearanceCount of at least 1; the count of
\* an entity that stays in the registry never decreases: promote, demote,
\* togglePin and the update operations of the analyzer leave it as it was,
\* and a resolve or a markAsMentioned raises it by exactly one.
C27_AppearanceCount ==
    [][\A id \in NpcIds :
          /\ HasNPC(npcs', JsStr(id)) =>
                (CountOf(npcs', id).t = "number" /\ CountOf(npcs', id).s = ""
                    /\ CountOf(npcs', id).n >= JsNum(1).n)
          /\ (HasNPC(npcs, JsStr(id)) /\ HasNPC(npcs', JsStr(id))) =>
                /\ CountOf(npcs', id).n >= CountOf(npcs, id).n
                /\ KeepsCount(id) => CountOf(npcs', id) = CountOf(npcs, id)
                /\ Counts(id) => CountOf(npcs', id).n = CountOf(npcs, id).n + JsNum(1).n]_vars

(***************************************************************************)
(* Claims about the NPC tracking settings.                                 *)
(***************************************************************************)

\* C29: the analysis flow never takes the number of major entities above
\* "Max Major NPCs": no step of executeClassificationActions that raises the
\* number of major entities leaves more of them than settings.npcMaxMajor
\* allows; a promotion that would is not carried out.
C29_MaxMajor ==
    [][(call'.fn = "execute" /\ MajorCount(npcs') > MajorCount(npcs)) =>
          JsNum(MajorCount(npcs')).n <= settings'.npcMaxMajor.n]_vars

\* C30: while "Auto-classify NPCs" is off, no step of the analysis flow
\* changes the classification of an entity: a classification changes only
\* in a promoteNPC or demoteNPC the user calls.
C30_AutoClassifyOff ==
    [][(~Truthy(settings.npcAutoClassify) /\ ~Truthy(settings'.npcAutoClassify)) =>
          \A id \in NpcIds :
              (/\ HasNPC(npcs, JsStr(id))
               /\ HasNPC(npcs', JsStr(id))
               /\ Get2(npcs'[id], "meta", "classification")
                      # Get2(npcs[id], "meta", "classification"))
                  => call'.fn \in {"promoteNPC", "demoteNPC"}]_vars

(***************************************************************************)
(* Claims about what processClassifications queues.                        *)
(***************************************************************************)

\* The sidecar the registry holds for the name of a record, or null.
Existing(c) == GetNPC(npcs, GenerateNpcId(c.name))

\* The record asks for the other classification of a sidecar that is held
\* and not pinned: from `current` to `recommended`.
Reclassifies(c, current, recommended) ==
    /\ Truthy(Existing(c))
    /\ ~Truthy(Get2(Existing(c), "meta", "userPinned"))
    /\ Get2(Existing(c), "meta", "classification") = current
    /\ c.recommendedClassification = recommended

\* What a queued migration says of its record.
Queued(c) == [npcId |-> GenerateNpcId(c.name), name |-> c.name, reason |-> c.reasoning]

QueuedOf(seq) ==
    [i \in 1..Len(seq) |-> [npcId |-> seq[i].npcId, name |-> seq[i].name, reason |-> seq[i].reason]]

QueuedFrom(seq) == [i \in 1..Len(seq) |-> Queued(seq[i])]

\* C32: processClassifications queues, record by record and in order: one
\* create (classification the recommended one, notes the reasoning) for each
\* record whose entity is absent; one promotion for each record recommending
\* major for a held unpinned minor entity, one demotion for each recommending
\* minor for a held unpinned major one, and no migration otherwise; one
\* update for each record of a held entity with a non-empty update list; and
\* it leaves the registry as it was.
C32_ProcessQueues ==
    [][(call'.fn = "process" /\ ~call'.thrown) =>
          /\ npcs' = npcs
          /\ actions'.from = "process"
          /\ [i \in 1..Len(actions'.lists.creates) |->
                 [name |-> actions'.lists.creates[i].name,
                  classification |-> actions'.lists.creates[i].classification,
                  notes |-> actions'.lists.creates[i].notes]]
                = [i \in 1..Len(SelectSeq(call'.classifications,
                                          LAMBDA c : ~Truthy(Existing(c)))) |->
                     [name |-> SelectSeq(call'.classifications,
                                         LAMBDA c : ~Truthy(Existing(c)))[i].name,
                      classification |->
                          SelectSeq(call'.classifications,
                                    LAMBDA c : ~Truthy(Existing(c)))[i].recommendedClassification,
                      notes |-> SelectSeq(call'.classifications,
                                          LAMBDA c : ~Truthy(Existing(c)))[i].reasoning]]
          /\ QueuedOf(actions'.lists.promotions)
                = QueuedFrom(SelectSeq(call'.classifications,
                                       LAMBDA c : Reclassifies(c, NPC_CLASSIFICATION.MINOR,
                                                               NPC_CLASSIFICATION.MAJOR)))
          /\ QueuedOf(actions'.lists.demotions)
                = QueuedFrom(SelectSeq(call'.classifications,
                                       LAMBDA c : Reclassifies(c, NPC_CLASSIFICATION.MAJOR,
                                                               NPC_CLASSIFICATION.MINOR)))
          /\ [i \in 1..Len(actions'.lists.updates) |->
                 [name |-> actions'.lists.updates[i].name,
                  operations |-> actions'.lists.updates[i].operations]]
                = [i \in 1..Len(SelectSeq(call'.classifications,
                                          LAMBDA c : Truthy(Existing(c)) /\ Len(c.updates) > 0)) |->
                     [name |-> SelectSeq(call'.classifications,
                                         LAMBDA c : Truthy(Existing(c)) /\ Len(c.updates) > 0)[i].name,
                      operations |->
                          SelectSeq(call'.classifications,
                                    LAMBDA c : Truthy(Existing(c)) /\ Len(c.updates) > 0)[i].updates]]]_vars

\* A batch of two records was processed: a promotion, a demotion and two
\* updates are queued.
C32_Witness ==
    /\ call.fn = "process"
    /\ Len(actions.lists.promotions) = 1
    /\ Len(actions.lists.demotions) = 1
    /\ Len(actions.lists.updates) = 2

(***************************************************************************)
(* Claims about what a migration keeps of a record.                        *)
(***************************************************************************)

\* The meta fields both shapes share, classification aside.
SharedMeta ==
    {"npcId", "name", "firstAppearance", "lastSeen", "appearanceCount", "userPinned",
     "createdAt"}

\* The step stored a migrated record: promoteNPC or demoteNPC did, or the
\* promotion or demotion loop of execute did.
Migrates ==
    \/ call'.fn \in {"promoteNPC", "demoteNPC"} /\ call'.step = "replaceNPC"
    \/ call'.fn = "execute" /\ call'.step \in {"promote", "demote"}

\* C35: a promotion or demotion changes only the classification and the
\* payload: the record stored has the npcId, name, firstAppearance, lastSeen,
\* appearanceCount, userPinned and createdAt of the record the registry held
\* under the id before, and it is stored under that id.
C35_SharedMetaKept ==
    [][Migrates =>
          /\ HasNPC(npcs, call'.npcId)
          /\ HasNPC(npcs', call'.npcId)
          /\ \A id \in NpcIds \ {call'.npcId.s} : npcs'[id] = npcs[id]
          /\ \A k \in SharedMeta :
                Get2(npcs'[call'.npcId.s], "meta", k) = Get2(npcs[call'.npcId.s], "meta", k)]_vars

(***************************************************************************)
(* Claims about the record a queued migration is computed from.            *)
(***************************************************************************)

\* C37: a promotion or demotion that execute commits is computed from the
\* record the registry holds under the id when it is committed: the registry
\* holds one, and the record handed to the transform is that one.
C37_CommitsFromCurrent ==
    [][(call'.fn = "execute" /\ call'.step \in {"promote", "demote"}) =>
          /\ HasNPC(npcs, call'.npcId)
          /\ Deref(CurrentAction(exec).existingData, npcs, call'.npcId)
                = npcs[call'.npcId.s]]_vars

(***************************************************************************)
(* Claims about what the update operations of the analyzer may write.      *)
(***************************************************************************)

\* C38: the update operations of the analyzer never change the shared meta
\* of an entity: a step of execute that applies the operations of a create
\* or of an update leaves the npcId, the name, the classification and
\* userPinned of every entity as they were.
C38_UpdatesKeepMeta ==
    [][(call'.fn = "execute" /\ call'.step \in {"applyCreate", "applyUpdate"}) =>
          \A id \in NpcIds :
              HasNPC(npcs, JsStr(id)) =>
                  /\ HasNPC(npcs', JsStr(id))
                  /\ \A k \in {"npcId", "name", "classification", "userPinned"} :
                        Get2(npcs'[id], "meta", k) = Get2(npcs[id], "meta", k)]_vars

(***************************************************************************)
(* remapOperationsForClassification on operations of the six kinds, called *)
(* on its own and by the update loop of a batch for a minor Tom and a      *)
(* major Ann.                                                              *)
(***************************************************************************)
OperationKinds == {"set", "add", "remove", "append", "increment", "delete"}

\* The value an analysis sends with an operation of a kind: a number to
\* increment by, a text otherwise, none with delete.
ValueFor(kind) ==
    CASE kind = "delete" -> JsUndefined
      [] kind = "increment" -> JsNum(2)
      [] OTHER -> JsStr("happy")

\* The paths of a minor and of a major sidecar that updates are sent to.
MinorPaths == {"data.notes", "data.sentiment"}

MajorPaths ==
    {"trackers.status.mood", "trackers.status.health", "trackers.knowledge",
     "narrativeRole.archetype"}

RemapOps ==
    {Operation(JsStr(kind), JsStr(path), ValueFor(kind)) :
        kind \in OperationKinds, path \in MinorPaths \cup MajorPaths}

\* remapOperationsForClassification(operations, classification): received
\* is the array handed in as the call leaves it, every operation of which
\* was copied ({...op}) before anything was assigned. It is the first call
\* made.
Remap(operations, classification) ==
    /\ call = NoCall
    /\ call' = [fn |-> "remapOperationsForClassification", operations |-> operations,
                classification |-> classification, received |-> operations,
                returned |-> RemapOperationsForClassification(operations, classification)]
    /\ UNCHANGED <<doc, history, npcs, timers, saveQueue, actions, exec, userCalls, mentioned,
                   activeNPCs, callers, parked, settings, sessionVars>>

\* One record for Tom, whom the analysis keeps minor, with one update.
RemapBatches ==
    {<<Record("Tom", NPC_CLASSIFICATION.MINOR, <<operation>>)>> : operation \in RemapOps}

RemapInit ==
    /\ RegistryInit
    /\ npcs \in {[NoNpcs EXCEPT !["npc_tom"] = TomMinor, !["npc_ann"] = AnnMajor],
                 [NoNpcs EXCEPT !["npc_tom"] = TomNumberSentiment, !["npc_ann"] = AnnNullEvent]}

RemapNext ==
    \/ \E operations \in SeqsUpTo(RemapOps, 2),
          classification \in {NPC_CLASSIFICATION.MINOR, NPC_CLASSIFICATION.MAJOR} :
          Remap(operations, classification)
    \/ \E classifications \in RemapBatches : Process(classifications)
    \/ Execute
    \/ ExecStep
    \/ \E t \in 1..MaxTimers : TimerFire(t)
    \/ \E t \in 1..MaxTimers, ok \in BOOLEAN : TimerDone(t, ok)

SpecRemap == RemapInit /\ [][RemapNext]_vars

\* The update loop applied one operation with a value, sent to the mood of
\* a sidecar that is minor.
MoodUpdate ==
    /\ call'.fn = "execute"
    /\ call'.step = "applyUpdate"
    /\ call'.remapClass = NPC_CLASSIFICATION.MINOR
    /\ Len(CurrentAction(exec).operations) = 1
    /\ CurrentAction(exec).operations[1].path = JsStr("trackers.status.mood")
    /\ CurrentAction(exec).operations[1].value # JsUndefined

\* C33: for a minor entity an update operation of any kind addressed to the
\* mood is applied as a set on the sentiment: after the batch the sentiment
\* is the value of the operation, never an array or a sum.
C33_MoodSetsSentiment ==
    [][MoodUpdate =>
          Get2(npcs'[call'.npcId.s], "data", "sentiment")
              = CurrentAction(exec).operations[1].value]_vars

\* An operation that is sent to a field of the shape the classification
\* names.
AddressedTo(operation, classification) ==
    IF classification = NPC_CLASSIFICATION.MINOR
    THEN operation.path.s \in MinorPaths
    ELSE operation.path.s \in MajorPaths

\* C34: remapping returns every operation that is already addressed to the
\* current shape of the entity with its kind, path and value, drops none of
\* them, whatever its kind (delete too), and leaves the operations it was
\* given as they were.
C34_CurrentShapePassesThrough ==
    (/\ call.fn = "remapOperationsForClassification"
     /\ \A i \in 1..Len(call.operations) :
            AddressedTo(call.operations[i], call.classification))
        => /\ ~call.returned.thrown
           /\ call.returned.ops = call.operations
           /\ call.received = call.operations

(***************************************************************************)
(* Claims about preview beside apply.                                      *)
(***************************************************************************)
\* What apply makes of the document and the operation of the preview call.
AppliedToPreviewed == Apply(call.before, <<>>, call.operation)

\* preview was called with an operation that apply carries out.
PreviewedValid ==
    /\ call.fn = "preview"
    /\ ~call.operation.nul
    /\ ~AppliedToPreviewed.thrown

\* C39: preview agrees with apply: for a document and an operation that
\* apply carries out, newValue of the preview is the value at the path of
\* the operation after apply, and oldValue is the value there before.
C39_PreviewAgreesWithApply ==
    PreviewedValid =>
        /\ ~call.returned.thrown
        /\ call.returned.oldValue = GetNestedValue(call.before, call.operation.path).val
        /\ call.returned.newValue
              = GetNestedValue(AppliedToPreviewed.doc, call.operation.path).val

(***************************************************************************)
(* onMessageReceived: the message counter, the analysis it starts, and     *)
(* processNPCClassifications with the scene names of the result. The       *)
(* update frequency is what the user typed before the first message.       *)
(***************************************************************************)
MaxAnalyses == 2

\* (v) => Math.max(1, parseInt(v) || 1)
UpdateFrequencyParser(v) ==
    IF OrElse(ParseInt(v), JsNum(1)).n < JsNum(1).n THEN JsNum(1)
    ELSE OrElse(ParseInt(v), JsNum(1))

\* What the user types into "Update every N messages".
UpdateFrequencyInputs == {"1", "2", "3", "", "-10"}

\* The test that lets onMessageReceived return before the analysis, read as
\* a test that goes on where it is true.
DueSkippingOne(counter, frequency) == counter.n > frequency.n

\* !(settings.messageCounter < settings.updateFrequency)
Due(counter, frequency) == ~(counter.n < frequency.n)

\* settings.messageCounter++
PlusOne(counter) == JsTenths(counter.n + JsNum(1).n)

\* getCurrentCharacterId(): the character of the chat, null in a group chat.
CharIds == {JsStr("char"), JsNull}

\* onMessageReceived up to its first await: counted is the counter after
\* messageCounter++.
Counted(charId, counted) ==
    /\ settings' = [settings EXCEPT !.messageCounter =
                        IF Due(counted, settings.updateFrequency) THEN JsNum(0) ELSE counted]
    /\ analyses' = IF Due(counted, settings.updateFrequency) THEN analyses + 1 ELSE analyses
    /\ call' = [fn |-> "onMessageReceived", charId |-> charId, counted |-> TRUE,
                started |-> Due(counted, settings.updateFrequency)]

MessageReceived(charId) ==
    /\ ~Runnable
    /\ analyses < MaxAnalyses
    /\ IF ~Truthy(settings.enabled) \/ ~Truthy(settings.autoUpdate) \/ ~Truthy(charId)
       THEN /\ call' = [fn |-> "onMessageReceived", charId |-> charId, counted |-> FALSE,
                        started |-> FALSE]
            /\ UNCHANGED <<settings, analyses>>
       ELSE Counted(charId, PlusOne(settings.messageCounter))
    /\ UNCHANGED <<doc, history, npcs, timers, saveQueue, actions, exec, userCalls, mentioned,
                   activeNPCs, callers, parked, chatId, chatMetadata, cached>>

\* analyzeChanges returned to a run of onMessageReceived, which goes on to
\* processNPCClassifications: nothing to do without classifications, else
\* processClassifications.
AnalysisReturns(npcClassifications) ==
    /\ ~Runnable
    /\ analyses > 0
    /\ analyses' = analyses - 1
    /\ IF ~Truthy(settings.npcEnabled) \/ npcClassifications = <<>>
       THEN /\ call' = [fn |-> "processNPCClassifications",
                        classifications |-> npcClassifications]
            /\ UNCHANGED <<doc, history, npcs, timers, saveQueue, actions, exec, userCalls,
                           mentioned, activeNPCs, callers, parked, settings, chatId,
                           chatMetadata, cached>>
       ELSE /\ exec.st = "idle"
            /\ actions.from = "none"
            /\ Processed(npcClassifications, ProcessClassifications(npcs, npcClassifications))

\* The names of the entities on scene that an analysis returns.
SceneNames == {<<>>, <<JsStr("Tom")>>, <<JsStr("Tom"), JsStr("Ann")>>}

\* processNPCClassifications once executeClassificationActions returned:
\* updateSceneContext({ activeNPCs: sceneNPCs }) up to its `await save()`
\* where there are scene names, else the save() after it.
UpdateSceneContext(sceneNPCs) ==
    /\ exec.st = "done"
    /\ actions.from = "process"
    /\ CanSave(timers, saveQueue)
    /\ activeNPCs' = IF Len(sceneNPCs) > 0 THEN sceneNPCs ELSE activeNPCs
    /\ timers' = Save(timers, saveQueue, "exec").timers
    /\ saveQueue' = Save(timers, saveQueue, "exec").saveQueue
    /\ exec' = [exec EXCEPT !.st = "await",
                            !.stage = IF Len(sceneNPCs) > 0 THEN "scene" ELSE "saved"]
    /\ call' = [fn |-> "updateSceneContext", activeNPCs |-> sceneNPCs]
    /\ UNCHANGED <<doc, history, npcs, actions, userCalls, mentioned, callers, parked, settings,
                   sessionVars>>

\* `await npcRegistry.save()` of processNPCClassifications after the scene
\* update.
SaveRegistry ==
    /\ exec.st = "run"
    /\ exec.ph > Len(PhaseOrder)
    /\ exec.stage = "scene"
    /\ timers' = Save(timers, saveQueue, "exec").timers
    /\ saveQueue' = Save(timers, saveQueue, "exec").saveQueue
    /\ exec' = [exec EXCEPT !.st = "await", !.stage = "saved"]
    /\ call' = Log("save", "call", JsUndefined, JsUndefined, JsUndefined, JsUndefined)
    /\ UNCHANGED <<doc, history, npcs, actions, userCalls, mentioned, activeNPCs, callers,
                   parked, settings, sessionVars>>

\* processNPCClassifications returns.
Return ==
    /\ exec.st = "run"
    /\ exec.ph > Len(PhaseOrder)
    /\ exec.stage = "saved"
    /\ exec' = [exec EXCEPT !.st = "returned"]
    /\ call' = [fn |-> "processNPCClassifications", classifications |-> <<>>]
    /\ UNCHANGED <<doc, history, npcs, timers, saveQueue, actions, userCalls, mentioned,
                   activeNPCs, callers, parked, settings, sessionVars>>

\* NPCRegistry.getActiveNPCs
GetActiveNPCs(registry, active) ==
    SelectSeq([i \in 1..Len(active) |-> GetNPC(registry, active[i])], Truthy)

MessagesInit ==
    /\ doc = JsUndefined
    /\ history = <<>>
    /\ call = NoCall
    /\ npcs = [NoNpcs EXCEPT !["npc_tom"] = TomMinor, !["npc_ann"] = AnnMajor]
    /\ timers = [t \in 1..MaxTimers |-> FreeTimer]
    /\ saveQueue = 0
    /\ actions = NoActions
    /\ exec = IdleExec
    /\ userCalls = 0
    /\ mentioned = <<>>
    /\ callers = <<>>
    /\ parked = NoBatch
    /\ \E v \in UpdateFrequencyInputs :
          settings = [defaultSettings EXCEPT !.updateFrequency = UpdateFrequencyParser(v)]
    /\ HostInit

MessagesNext ==
    \/ \E charId \in CharIds : MessageReceived(charId)
    \/ \E checked \in BOOLEAN : ChangeSetting("autoUpdate", JsBool(checked))
    \/ \E npcClassifications \in DebounceBatches \cup {<<>>} :
          AnalysisReturns(npcClassifications)
    \/ Execute
    \/ ExecStep
    \/ \E sceneNPCs \in SceneNames : UpdateSceneContext(sceneNPCs)
    \/ SaveRegistry
    \/ Return
    \/ \E t \in 1..MaxTimers : TimerFire(t)
    \/ \E t \in 1..MaxTimers, ok \in BOOLEAN : TimerDone(t, ok)
    \/ \E id \in NpcIds : MarkAsMentionedWithin(JsStr(id), MaxUserCalls)
    \/ \E id \in NpcIds : DeleteNPC(JsStr(id))

SpecMessages == MessagesInit /\ [][MessagesNext]_vars

(***************************************************************************)
(* Claims about the message counter and the scene context.                 *)
(***************************************************************************)
\* The counter is a whole number of 0..N-1, N being the update frequency.
CounterInRange ==
    /\ settings.messageCounter.t = "number"
    /\ settings.messageCounter.n >= JsNum(0).n
    /\ settings.messageCounter.n < settings.updateFrequency.n

\* C36: with update frequency N the automatic analysis is started on
\* exactly every N-th message received: a message starts one if and only if
\* it is the N-th since the last start, the counter is 0 whenever one has
\* started, one more after any other message, and in 0..N-1 between
\* messages, also while analyses started earlier are still running.
C36_EveryNthMessage ==
    [][/\ CounterInRange'
       /\ (call'.fn = "onMessageReceived" /\ call'.counted) =>
            /\ call'.started
                 <=> (PlusOne(settings.messageCounter) = settings.updateFrequency)
            /\ call'.started =>
                 settings'.messageCounter = JsNum(0) /\ analyses' = analyses + 1
            /\ ~call'.started =>
                 /\ settings'.messageCounter = PlusOne(settings.messageCounter)
                 /\ analyses' = analyses
       /\ ~(call'.fn = "onMessageReceived" /\ call'.counted) =>
            settings'.messageCounter = settings.messageCounter /\ analyses' <= analyses]_vars

\* The third message since the last start arrived while an earlier analysis
\* was running, and started another.
C36_Witness ==
    /\ call.fn = "onMessageReceived"
    /\ call.started
    /\ settings.updateFrequency = JsNum(3)
    /\ settings.messageCounter = JsNum(0)
    /\ analyses = 2

\* C40: every element of sceneContext.activeNPCs and of
\* sceneContext.recentlyMentioned is the id of an entity the registry
\* holds, so that getActiveNPCs returns one entity for each.
C40_SceneIdsPresent ==
    /\ \A i \in 1..Len(activeNPCs) : HasNPC(npcs, activeNPCs[i])
    /\ \A i \in 1..Len(mentioned) : HasNPC(npcs, mentioned[i])
    /\ Len(GetActiveNPCs(npcs, activeNPCs)) = Len(activeNPCs)

(***************************************************************************)
(* The registry from chat to chat: init() loaded it or, with NPC tracking  *)
(* off, did not; the user changes the chat while saves may be pending.     *)
(***************************************************************************)
\* registry.npcs of a registry object nothing has changed yet: of the ones
\* stored with chats "a" and "b", and of one create() has just made.
RegistryOf(data) ==
    CASE data = StoredIn("a") ->
            [NoNpcs EXCEPT !["npc_tom"] = TomMinor, !["npc_ann"] = AnnMajor]
      [] data = StoredIn("b") -> [NoNpcs EXCEPT !["npc_ann"] = Pinned(AnnMajor)]
      [] OTHER -> NoNpcs

\* What load() finds for chat c: chatMetadata[storageKey], or the registry
\* create() makes where there is none.
DataFor(c) == IF chatMetadata[c] = NoData THEN CreatedIn(c) ELSE chatMetadata[c]

\* NPCRegistry.load() in chat c: the cached registry if there is one, else
\* the one of the chat, which create() stores where it made it.
Load(c) ==
    IF cached # NoRegistry
    THEN UNCHANGED <<cached, chatMetadata, npcs, mentioned, activeNPCs>>
    ELSE /\ cached' = DataFor(c)
         /\ chatMetadata' = [chatMetadata EXCEPT ![c] = DataFor(c)]
         /\ npcs' = RegistryOf(DataFor(c))
         /\ mentioned' = <<>>
         /\ activeNPCs' = <<>>

\* The user opens chat c, a chat with a character: getContext() is the
\* context of c from now on, and onChatChanged runs.
OnChatChanged(c) ==
    /\ ~Runnable
    /\ c # chatId
    /\ chatId' = c
    /\ IF Truthy(settings.npcEnabled)
       THEN Load(c)
       ELSE UNCHANGED <<cached, chatMetadata, npcs, mentioned, activeNPCs>>
    /\ call' = [fn |-> "onChatChanged", from |-> chatId, to |-> c,
                stored |-> chatMetadata[c]]
    /\ UNCHANGED <<doc, history, timers, saveQueue, actions, exec, userCalls, callers, parked,
                   settings, analyses>>

SessionInit ==
    /\ doc = JsUndefined
    /\ history = <<>>
    /\ call = NoCall
    /\ timers = [t \in 1..MaxTimers |-> FreeTimer]
    /\ saveQueue = 0
    /\ actions = NoActions
    /\ exec = IdleExec
    /\ userCalls = 0
    /\ mentioned = <<>>
    /\ callers = <<>>
    /\ parked = NoBatch
    /\ activeNPCs = <<>>
    /\ chatId = "a"
    /\ analyses = 0
    /\ chatMetadata \in {[c \in ChatIds |-> StoredIn(c)],
                         [c \in ChatIds |-> IF c = "a" THEN StoredIn("a") ELSE NoData]}
    /\ \/ /\ settings = defaultSettings
          /\ cached = StoredIn("a")
          /\ npcs = RegistryOf(StoredIn("a"))
       \/ /\ settings = [defaultSettings EXCEPT !.npcEnabled = JsBool(FALSE)]
          /\ cached = NoRegistry
          /\ npcs = NoNpcs

SessionNext ==
    \/ \E c \in ChatIds : OnChatChanged(c)
    \/ \E checked \in BOOLEAN : ChangeSetting("npcEnabled", JsBool(checked))
    \/ \E classifications \in DebounceBatches : cached # NoRegistry /\ Process(classifications)
    \/ Execute
    \/ ExecStep
    \/ \E t \in 1..MaxTimers : TimerFire(t)
    \/ \E t \in 1..MaxTimers, ok \in BOOLEAN : TimerDone(t, ok)
    \/ \E id \in NpcIds : TogglePin(JsStr(id))

SpecSession == SessionInit /\ [][SessionNext]_vars

\* The chat a registry object belongs to.
HomeOf(data) == CHOOSE c \in ChatIds : data \in {StoredIn(c), CreatedIn(c)}

\* C31: after a change of chat the registry in use is the one stored for
\* the new chat (a new empty one if none is stored), never the cached one
\* of the chat before; and no write into the store of a chat puts the
\* registry of another chat there.
C31_RegistryPerSession ==
    [][/\ (call'.fn = "onChatChanged" /\ Truthy(settings.npcEnabled)) =>
            cached' = DataFor(chatId')
       /\ \A c \in ChatIds :
            chatMetadata'[c] # chatMetadata[c] => HomeOf(chatMetadata'[c]) = c]_vars

====
